---- MODULE Spec2Model ----
(***************************************************************************)
(* Linked-project resolution and inherited-package merge of                *)
(* osclib/remote_project.py (RemoteProject, ProjectMetadata).              *)
(*                                                                         *)
(* The remote build service is the environment: remote_meta holds, per     *)
(* project name, the answer of the metadata GET (status code and the link  *)
(* list of the stored document), remote_pkgs the package listing.  The     *)
(* program state is the local state of one RemoteProject "T" obtained with *)
(* RemoteProject.find and of the call running on it; every loop iteration  *)
(* of linked_projects and of _merge_inherited is one step.                 *)
(***************************************************************************)
EXTENDS Integers, Sequences, FiniteSets, TLC

VARIABLES
    remote_meta,            \* project name -> answer of the metadata GET: status code
                            \* and the link list, title and description of the document
    remote_pkgs,            \* project name -> package listing (sequence of names)
    relname,                \* package name -> RemotePackage.releasename()
    budget,                 \* number of linked_projects calls the client of this run makes
    linked_projects_names,  \* self.metadata.linked_projects_names of the resolver T
    bare,                   \* self.metadata is None: T was built by RemoteProject("T")
    pc,                     \* position of the running call
    caller,                 \* which public method runs: "linked_projects", "get_packages"
    recursive,              \* argument of linked_projects
    pop_any,                \* worklist discipline of this run (FALSE: pop(0), as the code)
    to_process,             \* local worklist of linked_projects
    result,                 \* local accumulated result of linked_projects
    fetched,                \* log: names whose metadata was GET during the running call
    calls,                  \* number of linked_projects calls made on T's metadata
    returns,                \* log: outcomes of the finished linked_projects calls
    error,                  \* the exception the last call raised, NoError if none
    inherited,              \* argument of get_packages
    res,                    \* get_packages: T's own packages
    merge_dict,             \* _merge_inherited: the dict, as entries in insertion order
    proj_i,                 \* _merge_inherited: linked projects taken so far
    cur_pkgs,               \* _merge_inherited: packages of the linked project at hand
    pkg_j,                  \* _merge_inherited: packages of cur_pkgs taken so far
    listed,                 \* log: projects whose package list was fetched
    ret,                    \* the packages get_packages returned
    document,               \* what the last ProjectMetadata.load returned
    resolver,               \* the resolver the last find or create_subproject returned
    saved,                  \* log: names whose metadata document was PUT
    projects,               \* StagingWorkflow.projects: entries key, Project object
    pobjs,                  \* the fixture Project objects ever constructed
    kobjs,                  \* the fixture Package objects ever constructed
    robjs,                  \* the fixture Request objects ever constructed
    requests,               \* StagingWorkflow.requests: Request objects
    http,                   \* log: the requests the last fixture call sent to the OBS
                            \* instance and the remove() and revoke() calls it made
    server,                 \* what the OBS instance answers: request -> status code
    outcome,                \* what the last fixture call returned or raised
    users,                  \* TestCase.users: the stack of user ids
    active,                 \* the user of the configuration osc has parsed last
    testcall                \* the last call made on the TestCase

lpVars == <<linked_projects_names, bare, pc, caller, recursive, pop_any, to_process,
            result, fetched, calls, returns, error>>
lpVars_but_pc == <<linked_projects_names, bare, caller, recursive, pop_any, to_process,
                   result, fetched, calls, returns, error>>
gpVars == <<inherited, res, merge_dict, proj_i, cur_pkgs, pkg_j, listed, ret>>
envVars == <<remote_meta, remote_pkgs, relname, budget>>
subVars == <<document, resolver, saved>>
fixVars == <<projects, pobjs, kobjs, robjs, requests, http, server, outcome>>
tcVars == <<users, active, testcall>>
vars == <<envVars, lpVars, gpVars, subVars, fixVars, tcVars>>

(***************************************************************************)
(* Universes and bounds                                                    *)
(***************************************************************************)
Self == "T"
ProjNames == {"T", "R1", "R2"}

\* link declarations stored on the remote, over all projects together
MaxLinks == 4
\* linked_projects calls made on the same metadata object
MaxCalls == 2

\* packages stored on the remote, over all projects together
MaxPkgs == 3

\* link declarations of the project a subproject is created of
MaxParentLinks == 2

NotFoundCode == 404
OkCode == 200
\* statuses of the other HTTPError answers
ForbiddenCode == 403
ServerErrorCode == 500

Range(s) == {s[i] : i \in 1..Len(s)}

RECURSIVE SeqsUpTo(_, _)
\* all sequences over S of length at most n
SeqsUpTo(S, n) ==
    IF n <= 0 THEN {<<>>}
    ELSE LET shorter == SeqsUpTo(S, n - 1)
         IN  shorter \cup {Append(s, x) : s \in {t \in shorter : Len(t) = n - 1}, x \in S}

\* the answer of the metadata GET for a stored document with these links
Stored(links) == [code |-> OkCode, links |-> links, title |-> "", description |-> ""]

\* the answer for a name the remote store answers with an HTTP error status
Failing(code) == [code |-> code, links |-> <<>>, title |-> "", description |-> ""]

\* answers of the metadata GET: a stored document with at most n links, or 404
MetaAnswers(n) ==
    {Stored(l) : l \in SeqsUpTo(ProjNames, n)} \cup {Failing(NotFoundCode)}

\* the remote stores with at most n link declarations in all; T exists
RemoteMetas(n) ==
    UNION {UNION {{[p \in ProjNames |->
                        CASE p = "T" -> a [] p = "R1" -> b [] OTHER -> c] :
                    c \in MetaAnswers(n - Len(a.links) - Len(b.links))} :
                  b \in MetaAnswers(n - Len(a.links))} :
           a \in {m \in MetaAnswers(n) : m.code = OkCode}}

(***************************************************************************)
(* Package names, RemotePackage                                            *)
(***************************************************************************)
PkgNames ==
    {"wine", "foo", "foo.99", "patchinfo.42", "kernel-livepatch",
     "kernel-livepatch-5_3"}

\* the characters of a package name
Chars(n) ==
    CASE n = "wine" -> <<"w", "i", "n", "e">>
      [] n = "foo" -> <<"f", "o", "o">>
      [] n = "foo.99" -> <<"f", "o", "o", ".", "9", "9">>
      [] n = "patchinfo.42" ->
            <<"p", "a", "t", "c", "h", "i", "n", "f", "o", ".", "4", "2">>
      [] n = "kernel-livepatch" ->
            <<"k", "e", "r", "n", "e", "l", "-", "l", "i", "v", "e", "p", "a", "t",
              "c", "h">>
      [] n = "kernel-livepatch-5_3" ->
            <<"k", "e", "r", "n", "e", "l", "-", "l", "i", "v", "e", "p", "a", "t",
              "c", "h", "-", "5", "_", "3">>

Digits == {"0", "1", "2", "3", "4", "5", "6", "7", "8", "9"}

StartsWith(c, prefix) ==
    Len(c) >= Len(prefix) /\ SubSeq(c, 1, Len(prefix)) = prefix

PatchinfoPrefix == <<"p", "a", "t", "c", "h", "i", "n", "f", "o", ".">>

\* faulty variant of PatchinfoMatch: '^patchinfo\.[0-9]$', one digit only
PatchinfoMatchOneDigit(n) ==
    LET c == Chars(n)
    IN  /\ StartsWith(c, PatchinfoPrefix)
        /\ Len(c) = Len(PatchinfoPrefix) + 1
        /\ c[Len(c)] \in Digits

\* re.compile(r'^patchinfo\.[0-9]+$').match(name): the prefix, then one or
\* more digits up to the end ($ also accepts one final newline)
PatchinfoMatch(n) ==
    LET c == Chars(n)
        last == IF Len(c) > 0 /\ c[Len(c)] = "\n" THEN Len(c) - 1 ELSE Len(c)
    IN  /\ StartsWith(c, PatchinfoPrefix)
        /\ last > Len(PatchinfoPrefix)
        /\ \A i \in (Len(PatchinfoPrefix) + 1)..last : c[i] \in Digits

LivepatchPrefix ==
    <<"k", "e", "r", "n", "e", "l", "-", "l", "i", "v", "e", "p", "a", "t", "c", "h",
      "-">>

\* faulty variant of LivepatchMatch: '^kernel-livepatch', without the final hyphen
LivepatchMatchNoHyphen(n) ==
    StartsWith(Chars(n), SubSeq(LivepatchPrefix, 1, Len(LivepatchPrefix) - 1))

\* re.compile(r'^kernel-livepatch-').match(name)
LivepatchMatch(n) == StartsWith(Chars(n), LivepatchPrefix)

\* RemotePackage.releasename(): a total function of the package name
RelIdentity == [n \in PkgNames |-> n]

\* maintenance names alias their release name: foo.99 is foo
RelAlias == [RelIdentity EXCEPT !["foo.99"] = "foo"]

\* the release name of a release name need not be itself
RelChain == [RelAlias EXCEPT !["foo"] = "kernel-livepatch"]

\* the release names the merge runs draw from (RelAlias is the identity on
\* every name but one)
RelNames == {RelAlias, RelChain}

releasename(pkg) == relname[pkg.name]

\* the names the package stores are drawn from; wine is the package of the
\* test scenario
StoreNames == PkgNames \ {"wine"}

RECURSIVE PkgLists(_)
\* package listings of at most n names, none repeated (the remote store
\* lists a package once)
PkgLists(n) ==
    IF n <= 0 THEN {<<>>}
    ELSE LET shorter == PkgLists(n - 1)
             longest == {t \in shorter : Len(t) = n - 1}
         IN  shorter \cup
             UNION {{Append(s, x) : x \in StoreNames \ Range(s)} : s \in longest}

(***************************************************************************)
(* The link graph of a remote store                                        *)
(***************************************************************************)
\* names one hop away from a set of names in the store g
SuccessorsIn(g, S) == UNION {Range(g[p].links) : p \in S}

RECURSIVE ClosureIn(_, _)
ClosureIn(g, S) ==
    LET more == S \cup SuccessorsIn(g, S)
    IN  IF more = S THEN S ELSE ClosureIn(g, more)

\* names reachable from T by one or more link hops in the store g
ReachableIn(g) == ClosureIn(g, Range(g["T"].links))

Links(p) == remote_meta[p].links

Successors(S) == SuccessorsIn(remote_meta, S)

Reachable == ReachableIn(remote_meta)

RECURSIVE LevelSet(_)
\* names reachable from T by exactly k link hops, k >= 1
LevelSet(k) == IF k = 1 THEN Range(Links("T")) ELSE Successors(LevelSet(k - 1))

\* link distance: least number (>= 1) of hops from T; defined on Reachable
Distance(n) ==
    CHOOSE k \in 1..Cardinality(ProjNames) :
        /\ n \in LevelSet(k)
        /\ \A j \in 1..(k - 1) : n \notin LevelSet(j)

\* documents with at most one link, or 404
OneLinkAnswers ==
    {Stored(l) : l \in {<<>>} \cup {<<p>> : p \in ProjNames}}
        \cup {Failing(NotFoundCode)}

\* the remote stores of the merge runs: every project links to at most one
\* project, and a project T cannot reach is not there; R1 and R2 are
\* interchangeable names, so a link of T to another project goes to R1
ChainMetas ==
    {g \in [ProjNames -> OneLinkAnswers] :
        /\ g["T"].code = OkCode
        /\ "R2" \notin Range(g["T"].links)
        /\ \A p \in ProjNames \ ({"T"} \cup ReachableIn(g)) : g[p].code = NotFoundCode}

\* the package stores with at most n packages in all
Stores(n) ==
    UNION {UNION {{[p \in ProjNames |->
                        CASE p = "T" -> a [] p = "R1" -> b [] OTHER -> c] :
                    c \in PkgLists(n - Len(a) - Len(b))} :
                  b \in PkgLists(n - Len(a))} :
           a \in PkgLists(n)}

\* a project that is not there lists no packages
StoresOf(g, n) ==
    {s \in Stores(n) : \A p \in ProjNames : g[p].code = NotFoundCode => s[p] = <<>>}

(***************************************************************************)
(* ProjectMetadata.load / parse, RemoteProject.find                        *)
(***************************************************************************)
\* the element tree of the document an answer stands for, under the name
\* p: root with name attribute, children in document order (title,
\* description, then one link element per link)
TreeOf(p, answer) ==
    [name |-> p,
     children |-> <<[tag |-> "title", project |-> "", text |-> answer.title],
                    [tag |-> "description", project |-> "", text |-> answer.description]>>
                  \o [i \in 1..Len(answer.links) |->
                        [tag |-> "link", project |-> answer.links[i], text |-> ""]]]

\* ET.tostring(root): the root's start tag with its name attribute, then
\* the child elements in document order
tostring(root) ==
    <<[tag |-> "project", name |-> root.name, project |-> "", text |-> ""]>>
        \o [i \in 1..Len(root.children) |->
              [tag |-> root.children[i].tag, name |-> "",
               project |-> root.children[i].project, text |-> root.children[i].text]]

\* ET.fromstring(content): the root element with its children
fromstring(content) ==
    [name |-> content[1].name,
     children |-> [i \in 1..(Len(content) - 1) |->
                     [tag |-> content[i + 1].tag, project |-> content[i + 1].project,
                      text |-> content[i + 1].text]]]

\* the document the remote store sends for project p, as a string
RawMetadata(p) == tostring(TreeOf(p, remote_meta[p]))

NoError == [kind |-> "none"]

\* ProjectNotFound("Project %s not found" % (project_name))
ProjectNotFound(p) == [kind |-> "ProjectNotFound", project_name |-> p]

\* the HTTPError http_GET raises for the answer on p
HTTPError(p) == [kind |-> "HTTPError", code |-> remote_meta[p].code]

\* faulty variant of LoadFails: a failing GET is taken for an empty document
LoadNeverFails(p) == FALSE

\* http_GET raises HTTPError on every answer that is not a success
LoadFails(p) == remote_meta[p].code /= OkCode

\* faulty variant of LoadError: every HTTPError becomes ProjectNotFound
LoadErrorAlwaysNotFound(p) == ProjectNotFound(p)

\* the exception load raises on a failing GET: ProjectNotFound on a 404
\* answer, else the HTTPError as it came
LoadError(p) ==
    IF remote_meta[p].code = NotFoundCode THEN ProjectNotFound(p) ELSE HTTPError(p)

IsLink(child) == child.tag = "link"

\* parse: the project attribute of every link child, in document order
Parse(content) ==
    LET data == fromstring(content)
        links == SelectSeq(data.children, IsLink)
    IN  [linked_projects_names |-> [i \in 1..Len(links) |-> links[i].project]]

\* find: the content load returns is parsed once; a resolver with name and
\* parsed metadata
Find(name) ==
    CHOOSE project \in {[name |-> name, metadata |-> Parse(content)] :
                            content \in {RawMetadata(name)}} : TRUE

(***************************************************************************)
(* ProjectMetadata.linked_projects                                         *)
(***************************************************************************)
ResultNames(found) == [i \in 1..Len(found) |-> found[i].name]

\* faulty variant of NotInResult: only the resolver appended last is compared
NotInResultLast(name, found) ==
    IF Len(found) = 0 THEN TRUE ELSE found[Len(found)].name /= name

\* faulty variant of NotInResult: the project the call was made on is never resolved
NotInResultNorSelf(name, found) ==
    name /= "T" /\ \A i \in 1..Len(found) : found[i].name /= name

\* all([r.name != name for r in result])
NotInResult(name, found) == \A i \in 1..Len(found) : found[i].name /= name

\* faulty variant of RemoveAt: the name is read but not taken off the worklist
PeekAt(s, i) == s

\* the worklist without its element at position i (pop(0) is i = 1)
RemoveAt(s, i) == SubSeq(s, 1, i - 1) \o SubSeq(s, i + 1, Len(s))

\* indices the loop may pop: the front, as the code does (pop(0)); any
\* pending index in the runs that process the worklist in any order
PopIndices == IF pop_any THEN 1..Len(to_process) ELSE {1} \cap (1..Len(to_process))

\* faulty variant of Expansion: the recursive flag is not consulted
ExpansionAlways(project) == project.metadata.linked_projects_names

\* faulty variant of Expansion: only the first link of a resolved project is followed
ExpansionFirstOnly(project) ==
    IF recursive /\ project.metadata.linked_projects_names /= <<>>
    THEN <<project.metadata.linked_projects_names[1]>>
    ELSE <<>>

\* the names appended to the worklist after resolving project
Expansion(project) ==
    IF recursive THEN project.metadata.linked_projects_names ELSE <<>>

\* faulty variant of Requeue: names already resolved are not queued again
RequeueUnresolved(rest, names) ==
    rest \o SelectSeq(names, LAMBDA n : n \notin Range(ResultNames(result)))

\* faulty variant of Requeue: new names go to the front (depth first)
RequeueFront(rest, names) == names \o rest

\* to_process += names
Requeue(rest, names) == rest \o names

\* faulty variant of WorklistSeed: the worklist is the list itself, which
\* the pops of the first call have emptied
WorklistSeedShared == IF calls = 0 THEN linked_projects_names ELSE <<>>

\* to_process = self.linked_projects_names.copy()
WorklistSeed == linked_projects_names

StartLinkedProjects(rec) ==
    /\ to_process' = WorklistSeed
    /\ result' = <<>>
    /\ fetched' = <<>>
    /\ recursive' = rec
    /\ error' = NoError
    /\ pc' = "loop"

\* calls a run makes
CallBudget == budget

\* a caller invokes metadata.linked_projects(recursive) on T's metadata
LPCall ==
    /\ pc \in {"idle", "done", "raised", "returned"}
    /\ ~bare
    /\ calls < CallBudget
    /\ \E rec \in BOOLEAN : StartLinkedProjects(rec)
    /\ caller' = "linked_projects"
    /\ calls' = calls + 1
    /\ UNCHANGED <<tcVars, fixVars, envVars, subVars, linked_projects_names, bare, pop_any, returns, gpVars>>

\* loop iteration: the popped name is already in result
LPSkip ==
    /\ pc = "loop"
    /\ \E i \in PopIndices :
        /\ ~NotInResult(to_process[i], result)
        /\ to_process' = RemoveAt(to_process, i)
    /\ UNCHANGED <<tcVars, fixVars, envVars, subVars, linked_projects_names, bare, pc, caller, recursive,
                   pop_any, result, fetched, calls, returns, error, gpVars>>

\* loop iteration: the popped name is new and its metadata is found
LPResolve ==
    /\ pc = "loop"
    /\ \E i \in PopIndices :
        LET name == to_process[i]
        IN  /\ NotInResult(name, result)
            /\ ~LoadFails(name)
            /\ fetched' = Append(fetched, name)
            /\ result' = Append(result, Find(name))
            /\ to_process' = Requeue(RemoveAt(to_process, i), Expansion(Find(name)))
    /\ UNCHANGED <<tcVars, fixVars, envVars, subVars, linked_projects_names, bare, pc, caller, recursive,
                   pop_any, calls, returns, error, gpVars>>

\* loop iteration: the popped name is new and find raises
LPRaise ==
    /\ pc = "loop"
    /\ \E i \in PopIndices :
        LET name == to_process[i]
        IN  /\ NotInResult(name, result)
            /\ LoadFails(name)
            /\ fetched' = Append(fetched, name)
            /\ to_process' = RemoveAt(to_process, i)
            /\ error' = LoadError(name)
            /\ returns' = Append(returns, [recursive |-> recursive, names |-> <<>>,
                                           error |-> LoadError(name)])
    /\ pc' = "raised"
    /\ UNCHANGED <<tcVars, fixVars, envVars, subVars, linked_projects_names, bare, caller, recursive,
                   pop_any, result, calls, gpVars>>

\* the worklist is empty: return result
LPReturn ==
    /\ pc = "loop"
    /\ caller = "linked_projects"
    /\ to_process = <<>>
    /\ pc' = "done"
    /\ returns' = Append(returns, [recursive |-> recursive,
                                   names |-> ResultNames(result), error |-> NoError])
    /\ UNCHANGED <<tcVars, fixVars, envVars, subVars, linked_projects_names, bare, caller, recursive,
                   pop_any, to_process, result, fetched, calls, error, gpVars>>

RECURSIVE Walk(_, _, _)
\* the while loop of linked_projects(recursive=True) run to its end on a
\* store: what the call returns (the names of result) or raises
Walk(store, pending, names) ==
    IF pending = <<>> THEN [names |-> names, error |-> NoError]
    ELSE LET name == pending[1]
             rest == RemoveAt(pending, 1)
         IN  IF name \in Range(names) THEN Walk(store, rest, names)
             ELSE IF store[name].code = NotFoundCode
                  THEN [names |-> <<>>, error |-> ProjectNotFound(name)]
             ELSE IF store[name].code /= OkCode
                  THEN [names |-> <<>>,
                        error |-> [kind |-> "HTTPError", code |-> store[name].code]]
             ELSE Walk(store,
                       Requeue(rest,
                               Parse(tostring(TreeOf(name, store[name])))
                                   .linked_projects_names),
                       Append(names, name))

\* self.metadata.linked_projects(recursive=True) on T against a store, as
\* one value
RecursiveClosure(store) == Walk(store, WorklistSeed, <<>>)

(***************************************************************************)
(* RemoteProject.get_packages, RemoteProject._merge_inherited              *)
(***************************************************************************)
\* faulty variant of OwnPackages: the listing is taken back to front
OwnPackagesReversed(project, via) ==
    [i \in 1..Len(remote_pkgs[project]) |->
        [name |-> remote_pkgs[project][Len(remote_pkgs[project]) + 1 - i],
         project |-> project, via |-> via]]

\* [RemotePackage(pkg_name, project=self.name) for pkg_name in pkg_list];
\* via tells the objects of different get_packages calls apart: 0 for the
\* call on T, k for the call on the k-th linked project
OwnPackages(project, via) ==
    [i \in 1..Len(remote_pkgs[project]) |->
        [name |-> remote_pkgs[project][i], project |-> project, via |-> via]]

Keys(dict) == {dict[i].key : i \in 1..Len(dict)}

\* dict.values(), in insertion order
Values(dict) == [i \in 1..Len(dict) |-> dict[i].pkg]

\* dict[key] = pkg: a present key keeps its place and gets the new value
DictSet(dict, key, pkg) ==
    IF key \in Keys(dict)
    THEN [i \in 1..Len(dict) |->
            IF dict[i].key = key THEN [key |-> key, pkg |-> pkg] ELSE dict[i]]
    ELSE Append(dict, [key |-> key, pkg |-> pkg])

\* faulty variant of SeedKey: own packages are keyed like inherited ones
SeedKeyReleasename(pkg) == releasename(pkg)

\* the key of an own package in the seed: pkg.name
SeedKey(pkg) == pkg.name

RECURSIVE SeedDict(_)
\* { pkg.name: pkg for pkg in res }
SeedDict(pkgs) ==
    IF pkgs = <<>> THEN <<>>
    ELSE LET last == pkgs[Len(pkgs)]
         IN  DictSet(SeedDict(SubSeq(pkgs, 1, Len(pkgs) - 1)), SeedKey(last), last)

\* faulty variant of NameTaken: the quick name check is left out
NameNeverTaken(pkg, dict) == FALSE

\* pkg.name in merge_dict
NameTaken(pkg, dict) == pkg.name \in Keys(dict)

\* faulty variant of ReleasenameTaken: the alias check is left out
ReleasenameNeverTaken(pkg, dict) == FALSE

\* faulty variant of ReleasenameTaken: the name is looked up a second time
ReleasenameTakenByName(pkg, dict) == pkg.name \in Keys(dict)

\* pkg.releasename() in merge_dict
ReleasenameTaken(pkg, dict) == releasename(pkg) \in Keys(dict)

\* get_packages(inherited=False) on T
GPCallOwn ==
    /\ pc = "idle"
    /\ caller' = "get_packages"
    /\ inherited' = FALSE
    /\ listed' = Append(listed, "T")
    /\ res' = OwnPackages("T", 0)
    /\ ret' = OwnPackages("T", 0)
    /\ pc' = "returned"
    /\ UNCHANGED <<tcVars, fixVars, envVars, subVars, linked_projects_names, bare, recursive, pop_any,
                   to_process, result, fetched, calls, returns, error, merge_dict,
                   proj_i, cur_pkgs, pkg_j>>

\* get_packages(inherited=True) on T: the own package list, then the
\* argument self.metadata.linked_projects(recursive=True) starts
GPCallInherited ==
    /\ pc = "idle"
    /\ ~bare
    /\ caller' = "get_packages"
    /\ inherited' = TRUE
    /\ listed' = Append(listed, "T")
    /\ res' = OwnPackages("T", 0)
    /\ StartLinkedProjects(TRUE)
    /\ UNCHANGED <<tcVars, fixVars, envVars, subVars, linked_projects_names, bare, pop_any, calls, returns,
                   merge_dict, proj_i, cur_pkgs, pkg_j, ret>>

\* what self.metadata.linked_projects raises when self.metadata is None
AttributeError == [kind |-> "AttributeError"]

\* get_packages(inherited=True) on a resolver without metadata: the own
\* package list, then the attribute access on None raises
GPCallInheritedBare ==
    /\ pc = "idle"
    /\ bare
    /\ caller' = "get_packages"
    /\ inherited' = TRUE
    /\ listed' = Append(listed, "T")
    /\ res' = OwnPackages("T", 0)
    /\ error' = AttributeError
    /\ pc' = "raised"
    /\ UNCHANGED <<tcVars, fixVars, envVars, subVars, linked_projects_names, bare, recursive, pop_any,
                   to_process, result, fetched, calls, returns, merge_dict, proj_i,
                   cur_pkgs, pkg_j, ret>>

\* linked_projects returned: _merge_inherited starts with the seeded dict
MergeStart ==
    /\ pc = "loop"
    /\ caller = "get_packages"
    /\ to_process = <<>>
    /\ merge_dict' = SeedDict(res)
    /\ proj_i' = 0
    /\ cur_pkgs' = <<>>
    /\ pkg_j' = 0
    /\ pc' = "merge"
    /\ UNCHANGED <<tcVars, fixVars, envVars, subVars, lpVars_but_pc, inherited, res, listed, ret>>

\* faulty variant of LinkedProject: the closure is walked from its end
LinkedProjectReversed(k) == result[Len(result) + 1 - k]

\* the k-th project the outer loop of _merge_inherited takes
LinkedProject(k) == result[k]

\* for project in linked_projects: project.get_packages(inherited = False)
MergeNextProject ==
    /\ pc = "merge"
    /\ pkg_j = Len(cur_pkgs)
    /\ proj_i < Len(result)
    /\ proj_i' = proj_i + 1
    /\ listed' = Append(listed, LinkedProject(proj_i + 1).name)
    /\ cur_pkgs' = OwnPackages(LinkedProject(proj_i + 1).name, proj_i + 1)
    /\ pkg_j' = 0
    /\ UNCHANGED <<tcVars, fixVars, envVars, subVars, lpVars, inherited, res, merge_dict, ret>>

\* the package the inner loop takes next
Candidate == cur_pkgs[pkg_j + 1]

AtCandidate == pc = "merge" /\ pkg_j < Len(cur_pkgs)

\* faulty variant of SkipCandidate: break, the rest of the listing is dropped
SkipListing ==
    /\ pkg_j' = Len(cur_pkgs)
    /\ UNCHANGED <<tcVars, fixVars, envVars, subVars, lpVars, inherited, res, merge_dict, proj_i, cur_pkgs,
                   listed, ret>>

\* the candidate is passed over: continue
SkipCandidate ==
    /\ pkg_j' = pkg_j + 1
    /\ UNCHANGED <<tcVars, fixVars, envVars, subVars, lpVars, inherited, res, merge_dict, proj_i, cur_pkgs,
                   listed, ret>>

\* quick name check
MergeSkipName ==
    /\ AtCandidate
    /\ NameTaken(Candidate, merge_dict)
    /\ SkipCandidate

\* skip patchinfos
MergeSkipPatchinfo ==
    /\ AtCandidate
    /\ ~NameTaken(Candidate, merge_dict)
    /\ PatchinfoMatch(Candidate.name)
    /\ SkipCandidate

\* skip kernel live patches
MergeSkipLivepatch ==
    /\ AtCandidate
    /\ ~NameTaken(Candidate, merge_dict)
    /\ ~PatchinfoMatch(Candidate.name)
    /\ LivepatchMatch(Candidate.name)
    /\ SkipCandidate

\* avoid special maintenance names like autoyast2.10233
MergeSkipReleasename ==
    /\ AtCandidate
    /\ ~NameTaken(Candidate, merge_dict)
    /\ ~PatchinfoMatch(Candidate.name)
    /\ ~LivepatchMatch(Candidate.name)
    /\ ReleasenameTaken(Candidate, merge_dict)
    /\ SkipCandidate

\* faulty variant of InsertKey: an inherited package is stored under its name
InsertKeyName(pkg) == pkg.name

\* the key an inherited package is stored under: pkg.releasename()
InsertKey(pkg) == releasename(pkg)

\* merge_dict[pkg.releasename()] = pkg
MergeInsert ==
    /\ AtCandidate
    /\ ~NameTaken(Candidate, merge_dict)
    /\ ~PatchinfoMatch(Candidate.name)
    /\ ~LivepatchMatch(Candidate.name)
    /\ ~ReleasenameTaken(Candidate, merge_dict)
    /\ merge_dict' = DictSet(merge_dict, InsertKey(Candidate), Candidate)
    /\ pkg_j' = pkg_j + 1
    /\ UNCHANGED <<tcVars, fixVars, envVars, subVars, lpVars, inherited, res, proj_i, cur_pkgs, listed, ret>>

\* both loops are over: return merge_dict.values()
MergeReturn ==
    /\ pc = "merge"
    /\ pkg_j = Len(cur_pkgs)
    /\ proj_i = Len(result)
    /\ ret' = Values(merge_dict)
    /\ pc' = "returned"
    /\ UNCHANGED <<tcVars, fixVars, envVars, subVars, lpVars_but_pc, inherited, res, merge_dict, proj_i,
                   cur_pkgs, pkg_j, listed>>

(***************************************************************************)
(* Specifications                                                          *)
(***************************************************************************)
NoDocument == [kind |-> "none"]

NoResolver == [kind |-> "none"]

\* no test fixture is set up, no test case runs
NoFixture ==
    /\ users = <<>>
    /\ active = "<None>"
    /\ testcall = [op |-> "none"]
    /\ projects = <<>>
    /\ pobjs = <<>>
    /\ kobjs = <<>>
    /\ robjs = <<>>
    /\ requests = <<>>
    /\ http = <<>>
    /\ server = <<>>
    /\ outcome = [kind |-> "none"]

\* no call was made yet
InitLocals ==
    /\ pc = "idle"
    /\ caller = "none"
    /\ recursive = FALSE
    /\ to_process = <<>>
    /\ result = <<>>
    /\ fetched = <<>>
    /\ calls = 0
    /\ returns = <<>>
    /\ inherited = FALSE
    /\ res = <<>>
    /\ merge_dict = <<>>
    /\ proj_i = 0
    /\ cur_pkgs = <<>>
    /\ pkg_j = 0
    /\ listed = <<>>
    /\ ret = <<>>
    /\ error = NoError
    /\ document = NoDocument
    /\ resolver = NoResolver
    /\ saved = <<>>
    /\ NoFixture

\* the state after RemoteProject.find("T") succeeded
InitResolver ==
    /\ remote_meta[Self].code = OkCode
    /\ linked_projects_names = Find(Self).metadata.linked_projects_names
    /\ bare = FALSE
    /\ InitLocals

\* the state after RemoteProject("T"): no metadata is attached
InitBareResolver ==
    /\ linked_projects_names = <<>>
    /\ bare = TRUE
    /\ InitLocals

Init ==
    /\ remote_meta \in RemoteMetas(MaxLinks)
    /\ remote_pkgs = [p \in ProjNames |-> <<>>]
    /\ relname = RelIdentity
    /\ budget = MaxCalls
    /\ pop_any = FALSE
    /\ InitResolver

Next == LPCall \/ LPSkip \/ LPResolve \/ LPRaise \/ LPReturn

Spec == Init /\ [][Next]_vars

\* the while loop of a started call keeps running: it is sequential code
\* with no blocking step besides the remote round-trips, which answer
LoopStep == LPSkip \/ LPResolve \/ LPRaise \/ LPReturn

\* termination is a matter of one call
InitLive ==
    /\ remote_meta \in RemoteMetas(MaxLinks)
    /\ remote_pkgs = [p \in ProjNames |-> <<>>]
    /\ relname = RelIdentity
    /\ budget = 1
    /\ pop_any = FALSE
    /\ InitResolver

LiveSpec == InitLive /\ [][Next]_vars /\ WF_vars(LoopStep)

\* the same call with the worklist processed in any order
InitAnyOrder ==
    /\ remote_meta \in RemoteMetas(MaxLinks)
    /\ remote_pkgs = [p \in ProjNames |-> <<>>]
    /\ relname = RelIdentity
    /\ budget = 1
    /\ pop_any = TRUE
    /\ InitResolver

AnyOrderSpec == InitAnyOrder /\ [][Next]_vars

\* the test scenario of the specification: T owns wine and links to R1, R1
\* owns wine, patchinfo.42 and foo and links to R2, R2 owns foo.99
ScenarioMeta ==
    [p \in ProjNames |->
        Stored(CASE p = "T" -> <<"R1">> [] p = "R1" -> <<"R2">> [] OTHER -> <<>>)]

ScenarioPkgs ==
    [p \in ProjNames |->
        CASE p = "T" -> <<"wine">>
          [] p = "R1" -> <<"wine", "patchinfo.42", "foo">>
          [] OTHER -> <<"foo.99">>]

InitStore ==
    \/ /\ remote_meta \in ChainMetas
       /\ remote_pkgs \in StoresOf(remote_meta, MaxPkgs)
       /\ relname \in RelNames
    \/ /\ remote_meta = ScenarioMeta
       /\ remote_pkgs = ScenarioPkgs
       /\ relname = RelAlias

\* get_packages on T
InitGP ==
    /\ InitStore
    /\ budget = 1
    /\ pop_any = FALSE
    /\ (InitResolver \/ InitBareResolver)

NextGP ==
    \/ GPCallOwn
    \/ GPCallInherited
    \/ GPCallInheritedBare
    \/ LPSkip
    \/ LPResolve
    \/ LPRaise
    \/ MergeStart
    \/ MergeNextProject
    \/ MergeSkipName
    \/ MergeSkipPatchinfo
    \/ MergeSkipLivepatch
    \/ MergeSkipReleasename
    \/ MergeInsert
    \/ MergeReturn

GPSpec == InitGP /\ [][NextGP]_vars

(***************************************************************************)
(* ProjectMetadata.load and RemoteProject.find called by a client          *)
(***************************************************************************)
\* statuses the remote store answers a metadata GET with, besides success
\* and 404
OtherCodes == {ForbiddenCode, ServerErrorCode}

\* the remote stores of the load and find runs: any project may be there,
\* not be there, or answer with another HTTP error
FailingMetas == [ProjNames -> OneLinkAnswers \cup {Failing(c) : c \in OtherCodes}]

\* what load returns: the stored document as it is
Loaded(name) == [kind |-> "document", content |-> RawMetadata(name)]

\* the frame of load and find: class methods, no resolver is touched
ClientFrame ==
    UNCHANGED <<tcVars, fixVars, envVars, linked_projects_names, bare, recursive, pop_any, to_process,
                result, calls, returns, gpVars, saved>>

\* ProjectMetadata.load(name) returns the document
LoadCall ==
    /\ pc \in {"idle", "returned", "raised"}
    /\ \E name \in ProjNames :
          /\ ~LoadFails(name)
          /\ fetched' = <<name>>
          /\ document' = Loaded(name)
    /\ resolver' = NoResolver
    /\ error' = NoError
    /\ caller' = "load"
    /\ pc' = "returned"
    /\ ClientFrame

\* ProjectMetadata.load(name) raises
LoadCallRaise ==
    /\ pc \in {"idle", "returned", "raised"}
    /\ \E name \in ProjNames :
          /\ LoadFails(name)
          /\ fetched' = <<name>>
          /\ error' = LoadError(name)
    /\ document' = NoDocument
    /\ resolver' = NoResolver
    /\ caller' = "load"
    /\ pc' = "raised"
    /\ ClientFrame

\* RemoteProject.find(name) returns a resolver
FindCall ==
    /\ pc \in {"idle", "returned", "raised"}
    /\ \E name \in ProjNames :
          /\ ~LoadFails(name)
          /\ fetched' = <<name>>
          /\ document' = Loaded(name)
          /\ resolver' = Find(name)
    /\ error' = NoError
    /\ caller' = "find"
    /\ pc' = "returned"
    /\ ClientFrame

\* RemoteProject.find(name): load raises, nothing is parsed or built
FindCallRaise ==
    /\ pc \in {"idle", "returned", "raised"}
    /\ \E name \in ProjNames :
          /\ LoadFails(name)
          /\ fetched' = <<name>>
          /\ error' = LoadError(name)
    /\ document' = NoDocument
    /\ resolver' = NoResolver
    /\ caller' = "find"
    /\ pc' = "raised"
    /\ ClientFrame

\* a client with no resolver at hand
InitFind ==
    /\ remote_meta \in FailingMetas
    /\ remote_pkgs = [p \in ProjNames |-> <<>>]
    /\ relname = RelIdentity
    /\ budget = 1
    /\ pop_any = FALSE
    /\ InitBareResolver

NextFind == LoadCall \/ LoadCallRaise \/ FindCall \/ FindCallRaise

FindSpec == InitFind /\ [][NextFind]_vars

(***************************************************************************)
(* RemoteProject.create_subproject, ProjectMetadata.save                   *)
(***************************************************************************)
ChildNames == {"sub"}

\* fullname = self.name + ":" + name
SubName(child) == Self \o ":" \o child

\* the names of the create_subproject runs
CreateNames == {"T", "R1"} \cup {SubName(c) : c \in ChildNames}

\* the title and description arguments; "" is the default None, which is
\* as false as the empty string
Texts == {"", "Sub"}

\* faulty variant of ParentDocument: the copy is made of what the resolver
\* holds instead of what the remote store holds
ParentDocumentCached ==
    tostring(TreeOf(Self, [remote_meta[Self] EXCEPT !.links = linked_projects_names]))

\* raw_metadata = ProjectMetadata.load(self.name)
ParentDocument == RawMetadata(Self)

\* root.set('name', fullname), then the text of every title child is set
\* when a title is given and of every description child when a
\* description is given
Rewritten(root, fullname, title, description) ==
    [name |-> fullname,
     children |-> [i \in 1..Len(root.children) |->
                     LET child == root.children[i]
                     IN  IF child.tag = "title" /\ title /= ""
                         THEN [child EXCEPT !.text = title]
                         ELSE IF child.tag = "description" /\ description /= ""
                              THEN [child EXCEPT !.text = description]
                              ELSE child]]

\* the text of the first child with this tag
TextOf(root, tag) ==
    LET at == {i \in 1..Len(root.children) : root.children[i].tag = tag}
    IN  IF at = {} THEN ""
        ELSE root.children[CHOOSE i \in at : \A j \in at : i <= j].text

\* the answer of later GETs once content was stored
AnswerOf(content) ==
    [code |-> OkCode,
     links |-> Parse(content).linked_projects_names,
     title |-> TextOf(fromstring(content), "title"),
     description |-> TextOf(fromstring(content), "description")]

\* faulty variant of Put: the document is stored under the parent's name
PutUnderSelf(store, project_name, content) ==
    [store EXCEPT ![Self] = AnswerOf(content)]

\* http_PUT(url, data=content) accepted: the store holds content under
\* project_name
Put(store, project_name, content) ==
    [store EXCEPT ![project_name] = AnswerOf(content)]

CreateFrame ==
    UNCHANGED <<tcVars, fixVars, remote_pkgs, relname, budget, linked_projects_names, bare, recursive, pop_any,
                to_process, result, calls, returns, gpVars>>

CanCreate ==
    /\ pc \in {"idle", "done", "raised", "returned"}
    /\ saved = <<>>

\* create_subproject(name, title, description) on T goes through
CreateSubproject ==
    /\ CanCreate
    /\ ~LoadFails(Self)
    /\ \E child \in ChildNames, title \in Texts, description \in Texts :
          LET fullname == SubName(child)
              root == Rewritten(fromstring(ParentDocument), fullname, title, description)
              modified_metadata == tostring(root)
          IN  /\ remote_meta' = Put(remote_meta, fullname, modified_metadata)
              /\ saved' = Append(saved, fullname)
              /\ resolver' = [name |-> fullname, metadata |-> Parse(modified_metadata)]
    /\ fetched' = <<Self>>
    /\ document' = Loaded(Self)
    /\ error' = NoError
    /\ caller' = "create_subproject"
    /\ pc' = "returned"
    /\ CreateFrame

\* create_subproject on T: the load of T's document raises
CreateSubprojectLoadRaise ==
    /\ CanCreate
    /\ LoadFails(Self)
    /\ fetched' = <<Self>>
    /\ document' = NoDocument
    /\ resolver' = NoResolver
    /\ error' = LoadError(Self)
    /\ caller' = "create_subproject"
    /\ pc' = "raised"
    /\ UNCHANGED <<tcVars, fixVars, remote_meta, saved>>
    /\ CreateFrame

\* create_subproject on T: the remote store refuses the PUT, save lets the
\* HTTPError through
CreateSubprojectSaveRaise ==
    /\ CanCreate
    /\ ~LoadFails(Self)
    /\ \E code \in OtherCodes : error' = [kind |-> "HTTPError", code |-> code]
    /\ fetched' = <<Self>>
    /\ document' = Loaded(Self)
    /\ resolver' = NoResolver
    /\ caller' = "create_subproject"
    /\ pc' = "raised"
    /\ UNCHANGED <<tcVars, fixVars, remote_meta, saved>>
    /\ CreateFrame

\* answers on the names of the create_subproject runs
SubAnswers ==
    {Stored(l) : l \in {<<>>} \cup {<<p>> : p \in CreateNames}}
        \cup {Failing(NotFoundCode)}

\* the document of T: titled, with up to MaxParentLinks links
ParentAnswers ==
    {[Stored(l) EXCEPT !.title = "Target", !.description = "About T"] :
        l \in SeqsUpTo(CreateNames, MaxParentLinks)}
        \cup {Failing(NotFoundCode), Failing(ServerErrorCode)}

\* T was found some time ago: what its resolver holds need not be what the
\* remote store holds now
InitCreate ==
    /\ remote_meta \in [CreateNames -> SubAnswers \cup ParentAnswers]
    /\ remote_meta[Self] \in ParentAnswers
    /\ \A p \in CreateNames \ {Self} : remote_meta[p] \in SubAnswers
    /\ remote_pkgs = [p \in CreateNames |-> <<>>]
    /\ relname = RelIdentity
    /\ budget = 1
    /\ pop_any = FALSE
    /\ linked_projects_names \in SeqsUpTo(CreateNames, 1)
    /\ bare = FALSE
    /\ InitLocals

NextCreate ==
    \/ CreateSubproject
    \/ CreateSubprojectLoadRaise
    \/ CreateSubprojectSaveRaise
    \/ LPCall
    \/ LPSkip
    \/ LPResolve
    \/ LPRaise
    \/ LPReturn

CreateSpec == InitCreate /\ [][NextCreate]_vars

(***************************************************************************)
(* The test fixture: StagingWorkflow.create_project, Project               *)
(***************************************************************************)
\* objects constructed in one run
MaxObjects == 5

\* objects the tests construct themselves in one run
MaxDirect == 1

\* requests the OBS instance answers with an HTTP error in one run
MaxFaults == 1

\* the name of a removed Project, the project of a removed Package
None == "<None>"

\* StagingWorkflow.project
Target == "T"

\* names the tests pass to create_project
CreateKeys == {"P", Target}

StagingNames == {Target \o ":Staging:A", Target \o ":Staging:B"}

HomeProject == "home:staging-bot"

FixtureNames == {"P", Target, HomeProject} \cup StagingNames

\* the reviewers and the project links the tests pass
Reviewers == {{}, {"factory-staging"}}

LinkLists == {<<>>, <<"P">>}

\* error statuses of the OBS instance
FaultCodes == {ForbiddenCode, NotFoundCode, ServerErrorCode}

FixturePackages == {"wine"}

\* the path of a package in the OBS instance
PackagePath(project_name, name) == project_name \o "/" \o name

\* request objects constructed in one run; the OBS instance numbers the
\* requests it creates
MaxRequests == 2

RequestPath(reqid) ==
    CASE reqid = 1 -> "request/1" [] reqid = 2 -> "request/2" [] reqid = 3 -> "request/3"
      [] OTHER -> "request/n"

\* the requests whose answer may be an error: the meta PUT and the DELETE
\* of a project the tests name, the DELETE of a package of the target, the
\* creation and the state change of a request
Endpoints ==
    {[method |-> "PUT", target |-> n] : n \in CreateKeys}
        \cup {[method |-> "DELETE", target |-> n] : n \in CreateKeys}
        \cup {[method |-> "DELETE", target |-> PackagePath(Target, k)] : k \in FixturePackages}
        \cup {[method |-> "POST", target |-> "request"]}
        \cup {[method |-> "POST", target |-> RequestPath(r)] : r \in 1..MaxRequests}

\* the OBS instances: at most n of the endpoints with the given methods
\* answer with an error
Servers(methods, n) ==
    {[e \in Endpoints |-> IF e \in DOMAIN g THEN g[e] ELSE OkCode] :
        g \in UNION {[S -> FaultCodes] :
                        S \in {F \in SUBSET {e \in Endpoints : e.method \in methods} :
                                  Cardinality(F) <= n}}}

\* the status the OBS instance answers a request with; a path it does not
\* know is not found
Answer(method, target) ==
    IF [method |-> method, target |-> target] \in DOMAIN server
    THEN server[[method |-> method, target |-> target]]
    ELSE NotFoundCode

RegKeys(reg) == {reg[i].key : i \in 1..Len(reg)}

\* self.projects[key]
RegGet(reg, key) == reg[CHOOSE i \in 1..Len(reg) : reg[i].key = key].obj

\* self.projects[key] = obj
RegSet(reg, key, obj) ==
    IF key \in RegKeys(reg)
    THEN [i \in 1..Len(reg) |->
            IF reg[i].key = key THEN [key |-> key, obj |-> obj] ELSE reg[i]]
    ELSE Append(reg, [key |-> key, obj |-> obj])

\* Project.__init__ up to the create test: name and an empty package list;
\* by records which code constructed the object
NewProject(name, by) ==
    [name |-> name, packages |-> <<>>, by |-> by, collected |-> FALSE]

\* update_meta, custom_meta: the PUT of the project meta
MetaPut(name, reviewer, project_links) ==
    [method |-> "PUT", target |-> name, reviewer |-> reviewer,
     project_links |-> project_links]

Returned(obj) == [kind |-> "returned", obj |-> obj]

Raised(code) == [kind |-> "raised", code |-> code]

\* the call create_project(name, reviewer=..., project_links=...) in the log
CreateCall(name, reviewer, project_links) ==
    [method |-> "call", target |-> "create_project", name |-> name, reviewer |-> reviewer,
     project_links |-> project_links]

\* the call create_project(project) in the log
CreateCallGiven(obj) == [method |-> "call", target |-> "create_project", obj |-> obj]

\* faulty variant of Registered: the registry is not consulted
RegisteredNever(name) == FALSE

\* name in self.projects
Registered(name) == name \in RegKeys(projects)

\* create_project(name, ...) with a registered name: the instance is returned
CreateProjectKnown ==
    \E name \in CreateKeys \cup {"target"}, reviewer \in Reviewers, project_links \in LinkLists :
        /\ Registered(name)
        /\ outcome' = Returned(RegGet(projects, name))
        /\ http' = <<CreateCall(name, reviewer, project_links)>>
        /\ UNCHANGED <<tcVars, envVars, lpVars, gpVars, subVars, projects, pobjs, kobjs, robjs, requests,
                       server>>

\* create_project(name, ...) with a new name: Project(name, ...) writes the
\* meta and is registered
CreateProjectNew ==
    \E name \in CreateKeys, reviewer \in Reviewers, project_links \in LinkLists :
        /\ ~Registered(name)
        /\ Len(pobjs) < MaxObjects
        /\ Answer("PUT", name) = OkCode
        /\ pobjs' = Append(pobjs, NewProject(name, "create_project"))
        /\ http' = <<CreateCall(name, reviewer, project_links),
                     MetaPut(name, reviewer, project_links)>>
        /\ projects' = RegSet(projects, name, Len(pobjs) + 1)
        /\ outcome' = Returned(Len(pobjs) + 1)
        /\ UNCHANGED <<tcVars, envVars, lpVars, gpVars, subVars, kobjs, robjs, requests, server>>

\* create_project(name, ...) with a new name, the meta PUT fails: the
\* constructor raises and nothing is registered
CreateProjectRaise ==
    \E name \in CreateKeys, reviewer \in Reviewers, project_links \in LinkLists :
        /\ ~Registered(name)
        /\ Len(pobjs) < MaxObjects
        /\ Answer("PUT", name) /= OkCode
        /\ pobjs' = Append(pobjs, NewProject(name, "create_project"))
        /\ http' = <<CreateCall(name, reviewer, project_links),
                     MetaPut(name, reviewer, project_links)>>
        /\ outcome' = Raised(Answer("PUT", name))
        /\ UNCHANGED <<tcVars, envVars, lpVars, gpVars, subVars, projects, kobjs, robjs, requests, server>>

\* create_project(project) with a Project instance: it is returned
CreateProjectGiven ==
    \E obj \in 1..Len(pobjs) :
        /\ outcome' = Returned(obj)
        /\ http' = <<CreateCallGiven(obj)>>
        /\ UNCHANGED <<tcVars, envVars, lpVars, gpVars, subVars, projects, pobjs, kobjs, robjs, requests,
                       server>>

\* the objects constructed by the given code
ConstructedBy(by) == {o \in 1..Len(pobjs) : pobjs[o].by = by}

\* a test constructs Project(name, create=False) itself
ConstructProject ==
    \E name \in CreateKeys :
        /\ Len(pobjs) < MaxObjects
        /\ Cardinality(ConstructedBy("test")) < MaxDirect
        /\ pobjs' = Append(pobjs, NewProject(name, "test"))
        /\ outcome' = Returned(Len(pobjs) + 1)
        /\ http' = <<>>
        /\ UNCHANGED <<tcVars, envVars, lpVars, gpVars, subVars, projects, kobjs, robjs, requests,
                       server>>

\* the requests of create_user and create_group, which the OBS instance
\* accepts
UserPut == [method |-> "PUT", target |-> "person/staging-bot"]

PasswordPost == [method |-> "POST", target |-> "person/staging-bot"]

GroupPut == [method |-> "PUT", target |-> "group/factory-staging"]

WorkflowPost == [method |-> "POST", target |-> "staging/" \o Target \o "/workflow"]

\* create_user('staging-bot') did its work before: name in self.users
UserKnown == HomeProject \in RegKeys(projects)

\* the objects create_user and Project(name=self.project, ...) construct
TargetObjects ==
    IF UserKnown THEN <<NewProject(Target, "create_target")>>
    ELSE <<NewProject(HomeProject, "create_user"), NewProject(Target, "create_target")>>

\* the requests sent up to the meta PUT of the target project
TargetRequests ==
    (IF UserKnown THEN <<>> ELSE <<UserPut, PasswordPost>>)
        \o <<GroupPut, MetaPut(Target, {"factory-staging"}, <<>>)>>

\* the registry after create_user
WithHome(reg) ==
    IF UserKnown THEN reg ELSE RegSet(reg, HomeProject, Len(pobjs) + 1)

\* create_target with the key 'target' registered: nothing is done
CreateTargetKnown ==
    /\ Registered("target")
    /\ outcome' = Returned(0)
    /\ http' = <<>>
        /\ UNCHANGED <<tcVars, envVars, lpVars, gpVars, subVars, projects, pobjs, kobjs, robjs, requests,
                       server>>

\* create_target: user, group, the target project under two keys, the
\* workflow and the two staging projects
CreateTarget ==
    /\ ~Registered("target")
    /\ Len(pobjs) + Len(TargetObjects) + 2 <= MaxObjects
    /\ Answer("PUT", Target) = OkCode
    /\ LET p == Len(pobjs) + Len(TargetObjects)
           A == Target \o ":Staging:A"
           B == Target \o ":Staging:B"
       IN  /\ pobjs' = pobjs \o TargetObjects
                           \o <<NewProject(A, "create_target"), NewProject(B, "create_target")>>
           /\ projects' = RegSet(RegSet(RegSet(RegSet(WithHome(projects),
                               "target", p), Target, p), "staging:A", p + 1),
                               "staging:B", p + 2)
    /\ http' = TargetRequests \o <<WorkflowPost>>
    /\ outcome' = Returned(0)
    /\ UNCHANGED <<tcVars, envVars, lpVars, gpVars, subVars, kobjs, robjs, requests, server>>

\* create_target, the meta PUT of the target project fails: the user and
\* its home project stay, the target is not registered
CreateTargetRaise ==
    /\ ~Registered("target")
    /\ Len(pobjs) + Len(TargetObjects) + 2 <= MaxObjects
    /\ Answer("PUT", Target) /= OkCode
    /\ pobjs' = pobjs \o TargetObjects
    /\ projects' = WithHome(projects)
    /\ http' = TargetRequests
    /\ outcome' = Raised(Answer("PUT", Target))
    /\ UNCHANGED <<tcVars, envVars, lpVars, gpVars, subVars, kobjs, robjs, requests, server>>

(***************************************************************************)
(* The test fixture: Package, Project.remove, StagingWorkflow.remove       *)
(***************************************************************************)
\* package objects constructed in one run
MaxPackages == 2

\* the objects and the log of a starting call as one value, which the
\* remove methods transform; raised is the status of the HTTPError on its way up, 0 if none
World == [pobjs |-> pobjs, kobjs |-> kobjs, robjs |-> robjs, http |-> <<>>, raised |-> 0]

CallOf(method, obj) == [method |-> "call", target |-> method, obj |-> obj]

Sent(method, target) == [method |-> method, target |-> target]

Logged(w, entry) == [w EXCEPT !.http = Append(@, entry)]

\* the end of a call in the log: code is the status of the HTTPError it
\* raises, 0 if it returns
Left(method, obj, code) == [method |-> "left", target |-> method, obj |-> obj, code |-> code]

\* faulty variant of Tolerated: every HTTP error of a DELETE is swallowed
ToleratedAll(code) == TRUE

\* a DELETE went through: no HTTPError, or one with code 404
Tolerated(code) == code \in {OkCode, NotFoundCode}

\* Package.remove on the package object k
PackageRemove(w, k) ==
    LET called == Logged(w, CallOf("Package.remove", k))
        pkg == w.kobjs[k]
        path == PackagePath(w.pobjs[pkg.project].name, pkg.name)
        code == Answer("DELETE", path)
        sent == Logged(called, Sent("DELETE", path))
        left == Left("Package.remove", k, 0)
    IN  IF pkg.project = 0 THEN Logged(called, left)
        ELSE IF Tolerated(code) THEN Logged([sent EXCEPT !.kobjs[k].project = 0], left)
        ELSE Logged([sent EXCEPT !.raised = code], Left("Package.remove", k, code))

RECURSIVE RemovePackages(_, _)
\* for package in self.packages: package.remove(), up to the first raise
RemovePackages(w, ks) ==
    IF ks = <<>> \/ w.raised /= 0 THEN w
    ELSE RemovePackages(PackageRemove(w, ks[1]), Tail(ks))

\* faulty variant of Removed: a removed project is not recognised
RemovedNever(project) == FALSE

\* not self.name
Removed(project) == project.name = None

\* Project.remove on the project object o
ProjectRemove(w, o) ==
    LET called == Logged(w, CallOf("Project.remove", o))
        project == w.pobjs[o]
        emptied == RemovePackages(called, project.packages)
        code == Answer("DELETE", project.name)
        sent == Logged(emptied, Sent("DELETE", project.name))
        left == Left("Project.remove", o, 0)
    IN  IF Removed(project) THEN Logged(called, left)
        ELSE IF emptied.raised /= 0
             THEN Logged(emptied, Left("Project.remove", o, emptied.raised))
        ELSE IF Tolerated(code) THEN Logged([sent EXCEPT !.pobjs[o].name = None], left)
        ELSE Logged([sent EXCEPT !.raised = code], Left("Project.remove", o, code))

\* request_state_change(APIURL, self.reqid, state)
StateChange(reqid, state) ==
    [method |-> "POST", target |-> RequestPath(reqid), state |-> state]

\* faulty variant of StateTolerated: only 404 is let through
StateToleratedNotFound(code) == code \in {OkCode, NotFoundCode}

\* change_state went through: no HTTPError, or one with code 403 or 404
StateTolerated(code) == code \in {OkCode, ForbiddenCode, NotFoundCode}

\* faulty variant of Revoked: the flag is not consulted
RevokedNever(request) == FALSE

\* self.revoked
Revoked(request) == request.revoked

\* Request.revoke on the request object r
RequestRevoke(w, r) ==
    LET called == Logged(w, CallOf("Request.revoke", r))
        request == w.robjs[r]
        code == Answer("POST", RequestPath(request.reqid))
        sent == Logged(called, StateChange(request.reqid, "revoked"))
        left == Left("Request.revoke", r, 0)
    IN  IF Revoked(request) THEN Logged(called, left)
        ELSE IF StateTolerated(code) THEN Logged([sent EXCEPT !.robjs[r].revoked = TRUE], left)
        ELSE Logged([sent EXCEPT !.raised = code], Left("Request.revoke", r, code))

RECURSIVE RemoveProjects(_, _)
\* for project in self.projects.values(): project.remove(), up to the
\* first raise
RemoveProjects(w, os) ==
    IF os = <<>> \/ w.raised /= 0 THEN w
    ELSE RemoveProjects(ProjectRemove(w, os[1]), Tail(os))

RECURSIVE RevokeRequests(_, _)
\* for request in self.requests: request.revoke(), up to the first raise
RevokeRequests(w, rs) ==
    IF rs = <<>> \/ w.raised /= 0 THEN w
    ELSE RevokeRequests(RequestRevoke(w, rs[1]), Tail(rs))

\* self.projects.values(), in insertion order of the keys
RegValues(reg) == [i \in 1..Len(reg) |-> reg[i].obj]

GroupDelete == [method |-> "DELETE", target |-> "group/factory-staging"]

\* StagingWorkflow.remove: the projects, the requests, then the groups,
\* whose DELETE may fail
WorkflowRemoved(w) ==
    LET emptied == RemoveProjects(w, RegValues(projects))
        revoked == RevokeRequests(emptied, requests)
    IN  IF revoked.raised /= 0 \/ ~UserKnown THEN revoked
        ELSE Logged(revoked, GroupDelete)

\* the state after a remove or revoke call, and what the caller sees
Becomes(w) ==
    \E after \in {w} :
        /\ pobjs' = after.pobjs
        /\ kobjs' = after.kobjs
        /\ robjs' = after.robjs
        /\ http' = after.http
        /\ outcome' = IF after.raised /= 0 THEN Raised(after.raised) ELSE Returned(0)

\* the objects a test can still call: not garbage collected
Alive == {o \in 1..Len(pobjs) : ~pobjs[o].collected}

\* the projects a test works on: the target and those it constructed or
\* had create_project construct
Held ==
    {o \in Alive :
        \/ pobjs[o].by \in {"test", "create_project"}
        \/ Registered("target") /\ RegGet(projects, "target") = o}

\* Package(name, project) by a test, on a registered project it works on
\* that was not removed
PackageNew ==
    \E o \in Held \cap Range(RegValues(projects)), name \in FixturePackages :
        /\ pobjs[o].name \in CreateKeys
        /\ Len(kobjs) < MaxPackages
        /\ kobjs' = Append(kobjs, [name |-> name, project |-> o])
        /\ pobjs' = [pobjs EXCEPT ![o].packages = Append(@, Len(kobjs) + 1)]
        /\ http' = <<Sent("PUT", PackagePath(pobjs[o].name, name))>>
        /\ outcome' = Returned(Len(kobjs) + 1)
        /\ UNCHANGED <<tcVars, envVars, lpVars, gpVars, subVars, projects, robjs, requests, server>>

\* project.remove() called by a test
ProjectRemoveCall ==
    \E o \in Held :
        /\ Becomes(ProjectRemove(World, o))
        /\ UNCHANGED <<tcVars, envVars, lpVars, gpVars, subVars, projects, requests, server>>

\* the objects no registry key refers to
Unregistered == Alive \ Range(RegValues(projects))

\* what a destructor raises is printed and dropped
Swallowed(w) == [w EXCEPT !.raised = 0]

RECURSIVE DelPackages(_, _)
\* Package.__del__ of each package
DelPackages(w, ks) ==
    IF ks = <<>> THEN w
    ELSE DelPackages(Swallowed(PackageRemove(w, ks[1])), Tail(ks))

\* Project.__del__ and the __del__ of its packages, in either order
ProjectDel ==
    \E o \in Unregistered, project_first \in BOOLEAN :
        /\ LET first == IF project_first THEN Swallowed(ProjectRemove(World, o)) ELSE World
               packages == DelPackages(first, pobjs[o].packages)
               last == IF project_first THEN packages
                       ELSE Swallowed(ProjectRemove(packages, o))
           IN  Becomes([last EXCEPT !.pobjs[o].collected = TRUE])
        /\ UNCHANGED <<tcVars, envVars, lpVars, gpVars, subVars, projects, requests, server>>

\* StagingWorkflow.remove()
WorkflowRemove ==
    /\ Becomes(WorkflowRemoved(World))
    /\ UNCHANGED <<tcVars, envVars, lpVars, gpVars, subVars, projects, requests, server>>

(***************************************************************************)
(* The test fixture: Request                                               *)
(***************************************************************************)
RequestTypes == {"submit", "delete"}

\* the packages a request can be made for: their project was not removed
LivePackages ==
    {k \in 1..Len(kobjs) :
        /\ kobjs[k].project /= 0
        /\ ~pobjs[kobjs[k].project].collected
        /\ ~Removed(pobjs[kobjs[k].project])}

\* the id the OBS instance gives the next request
NextReqid == Cardinality({r \in 1..Len(robjs) : robjs[r].reqid /= 0}) + 1

RequestPost(type) == [method |-> "POST", target |-> "request", type |-> type]

\* submit_package, request_package_delete: Request(...) creates the
\* request in the OBS instance and is registered
RequestNew ==
    \E k \in LivePackages, type \in RequestTypes :
        /\ Len(robjs) < MaxRequests
        /\ Answer("POST", "request") = OkCode
        /\ robjs' = Append(robjs, [revoked |-> FALSE, reqid |-> NextReqid, type |-> type,
                                   collected |-> FALSE])
        /\ requests' = Append(requests, Len(robjs) + 1)
        /\ http' = <<RequestPost(type)>>
        /\ outcome' = Returned(Len(robjs) + 1)
        /\ UNCHANGED <<tcVars, envVars, lpVars, gpVars, subVars, projects, pobjs, kobjs, server>>

\* the creation of the request fails: the constructor raises before
\* self.revoked = False and nothing is registered
RequestNewRaise ==
    \E k \in LivePackages, type \in RequestTypes :
        /\ Len(robjs) < MaxRequests
        /\ Answer("POST", "request") /= OkCode
        /\ robjs' = Append(robjs, [revoked |-> TRUE, reqid |-> 0, type |-> type,
                                   collected |-> FALSE])
        /\ http' = <<RequestPost(type)>>
        /\ outcome' = Raised(Answer("POST", "request"))
        /\ UNCHANGED <<tcVars, envVars, lpVars, gpVars, subVars, projects, pobjs, kobjs, requests,
                       server>>

\* what Request(type=...) raises for a type it does not know
WrongArgs == [kind |-> "raised", code |-> 0]

\* Request(..., type='other') by a test: oscerr.WrongArgs, nothing is sent
RequestUnknownType ==
    /\ Len(robjs) < MaxRequests
    /\ robjs' = Append(robjs, [revoked |-> TRUE, reqid |-> 0, type |-> "other",
                               collected |-> FALSE])
    /\ outcome' = WrongArgs
    /\ http' = <<>>
    /\ UNCHANGED <<tcVars, envVars, lpVars, gpVars, subVars, projects, pobjs, kobjs, requests,
                   server>>

\* request.revoke() called by a test on a request it holds
RequestRevokeCall ==
    \E r \in Range(requests) :
        /\ Becomes(RequestRevoke(World, r))
        /\ UNCHANGED <<tcVars, envVars, lpVars, gpVars, subVars, projects, requests, server>>

\* Request.__del__ of a request whose constructor raised
RequestDel ==
    \E r \in 1..Len(robjs) :
        /\ r \notin Range(requests)
        /\ ~robjs[r].collected
        /\ Becomes([Swallowed(RequestRevoke(World, r)) EXCEPT !.robjs[r].collected = TRUE])
        /\ UNCHANGED <<tcVars, envVars, lpVars, gpVars, subVars, projects, requests, server>>

\* the variables of the resolver model, which the fixture does not use
NoResolverRun ==
    /\ remote_meta = [p \in ProjNames |-> Stored(<<>>)]
    /\ remote_pkgs = [p \in ProjNames |-> <<>>]
    /\ relname = RelIdentity
    /\ budget = 1
    /\ pop_any = FALSE
    /\ linked_projects_names = <<>>
    /\ bare = TRUE
    /\ pc = "idle"
    /\ caller = "none"
    /\ recursive = FALSE
    /\ to_process = <<>>
    /\ result = <<>>
    /\ fetched = <<>>
    /\ calls = 0
    /\ returns = <<>>
    /\ inherited = FALSE
    /\ res = <<>>
    /\ merge_dict = <<>>
    /\ proj_i = 0
    /\ cur_pkgs = <<>>
    /\ pkg_j = 0
    /\ listed = <<>>
    /\ ret = <<>>
    /\ error = NoError
    /\ document = NoDocument
    /\ resolver = NoResolver
    /\ saved = <<>>

\* StagingWorkflow.__init__: no project, no request
NewWorkflow ==
    /\ projects = <<>>
    /\ pobjs = <<>>
    /\ kobjs = <<>>
    /\ robjs = <<>>
    /\ requests = <<>>
    /\ http = <<>>
    /\ outcome = [kind |-> "none"]

(***************************************************************************)
(* The test case: TestCase.osc_user, osc_user_pop, assertReviewBot         *)
(***************************************************************************)
\* user ids on the stack in one run
MaxDepth == 4

\* the user ids the tests switch to
UserNames == {"Admin", "staging-bot", "factory-auto"}

\* the stack and the active user of a test case; raised tells that the
\* call that made it left with IndexError
TestState(stack, user, raised) == [users |-> stack, active |-> user, raised |-> raised]

\* osc_user(userid): the id is pushed, written to the oscrc and the
\* configuration is parsed again
osc_user(t, userid) == TestState(Append(t.users, userid), userid, t.raised)

\* faulty variant of osc_user_pop: only the top of the stack is taken off
osc_user_pop_top(t) ==
    IF t.users = <<>> THEN TestState(<<>>, t.active, TRUE)
    ELSE IF Len(t.users) = 1 THEN TestState(<<>>, t.active, TRUE)
    ELSE osc_user(TestState(SubSeq(t.users, 1, Len(t.users) - 1), t.active, t.raised),
                  t.users[Len(t.users) - 1])

\* osc_user_pop(): self.users.pop(), then self.osc_user(self.users.pop());
\* pop() of an empty list raises IndexError
osc_user_pop(t) ==
    IF t.users = <<>> THEN TestState(<<>>, t.active, TRUE)
    ELSE IF Len(t.users) = 1 THEN TestState(<<>>, t.active, TRUE)
    ELSE osc_user(TestState(SubSeq(t.users, 1, Len(t.users) - 2), t.active, t.raised),
                  t.users[Len(t.users) - 1])

\* the test case as it is
Now == TestState(users, active, FALSE)

\* the test case after a call, and the call
Leaves(t, call) ==
    /\ users' = t.users
    /\ active' = t.active
    /\ testcall' = call
    /\ UNCHANGED <<envVars, lpVars, gpVars, subVars, fixVars>>

\* setUp: self.users = [], self.osc_user('Admin')
AfterSetUp ==
    /\ users = <<"Admin">>
    /\ active = "Admin"
    /\ testcall = [op |-> "setUp"]

\* setUp of the next test
SetUp == Leaves(osc_user(TestState(<<>>, active, FALSE), "Admin"), [op |-> "setUp"])

\* tearDown: self.osc_user('Admin')
TearDown ==
    /\ Len(users) < MaxDepth
    /\ Leaves(osc_user(Now, "Admin"), [op |-> "tearDown"])

\* osc_user(userid) called by a test
OscUser ==
    \E userid \in UserNames :
        /\ Len(users) < MaxDepth
        /\ Leaves(osc_user(Now, userid), [op |-> "osc_user", user |-> userid])

\* osc_user_pop() called by a test, two users or more on the stack
OscUserPop ==
    /\ Len(users) >= 2
    /\ Leaves(osc_user_pop(Now), [op |-> "osc_user_pop", raised |-> FALSE])

\* osc_user_pop() called by a test, fewer than two users on the stack:
\* IndexError
OscUserPopRaise ==
    /\ Len(users) < 2
    /\ Leaves(osc_user_pop(Now), [op |-> "osc_user_pop", raised |-> TRUE])

\* assertReviewBot(request_id, user, ...): osc_user(user), the script is
\* executed, osc_user_pop(); script is the user the script ran as
AssertReviewBot ==
    \E user \in UserNames :
        /\ Len(users) < MaxDepth
        /\ LET pushed == osc_user(Now, user)
               popped == osc_user_pop(pushed)
           IN  Leaves(popped, [op |-> "assertReviewBot", user |-> user,
                               script |-> pushed.active, raised |-> popped.raised])

\* a test case after setUp, no fixture
InitUser ==
    /\ NoResolverRun
    /\ AfterSetUp
    /\ NewWorkflow
    /\ server = <<>>

NextUser ==
    \/ SetUp
    \/ TearDown
    \/ OscUser
    \/ OscUserPop
    \/ OscUserPopRaise
    \/ AssertReviewBot

UserSpec == InitUser /\ [][NextUser]_vars

\* a new fixture on an OBS instance that may refuse a meta PUT
InitFixture ==
    /\ NoResolverRun
    /\ AfterSetUp
    /\ NewWorkflow
    /\ server \in Servers({"PUT"}, MaxFaults)

NextFixture ==
    \/ CreateProjectKnown
    \/ CreateProjectNew
    \/ CreateProjectRaise
    \/ CreateProjectGiven
    \/ ConstructProject
    \/ CreateTargetKnown
    \/ CreateTarget
    \/ CreateTargetRaise

FixtureSpec == InitFixture /\ [][NextFixture]_vars

\* a new fixture on an OBS instance that may refuse a DELETE
InitRemove ==
    /\ NoResolverRun
    /\ AfterSetUp
    /\ NewWorkflow
    /\ server \in Servers({"DELETE"}, MaxFaults)

NextRemove ==
    \/ ConstructProject
    \/ CreateTarget
    \/ PackageNew
    \/ ProjectRemoveCall
    \/ ProjectDel
    \/ WorkflowRemove

RemoveSpec == InitRemove /\ [][NextRemove]_vars

\* a new fixture on an OBS instance that may refuse a POST
InitRequest ==
    /\ NoResolverRun
    /\ AfterSetUp
    /\ NewWorkflow
    /\ server \in Servers({"POST"}, MaxFaults)

NextRequest ==
    \/ CreateTarget
    \/ PackageNew
    \/ RequestNew
    \/ RequestNewRaise
    \/ RequestUnknownType
    \/ RequestRevokeCall
    \/ RequestDel
    \/ WorkflowRemove

RequestSpec == InitRequest /\ [][NextRequest]_vars

(***************************************************************************)
(* Helpers of the claims                                                   *)
(***************************************************************************)
RECURSIVE Dedup(_)
\* s without repeated names, each kept at its first occurrence
Dedup(s) ==
    IF s = <<>> THEN <<>>
    ELSE LET front == Dedup(SubSeq(s, 1, Len(s) - 1))
             last == s[Len(s)]
         IN  IF last \in Range(front) THEN front ELSE Append(front, last)

NoDuplicates(s) == \A i, j \in 1..Len(s) : i /= j => s[i] /= s[j]

Occurrences(s, x) == Cardinality({i \in 1..Len(s) : s[i] = x})

InCall == pc \in {"loop", "done", "raised"}

(***************************************************************************)
(* Claims on linked_projects                                               *)
(***************************************************************************)
\* C1: on every link graph whose reachable link targets all exist (cycles,
\* self-links and duplicate names in link lists included), a started
\* linked_projects(recursive=True) terminates: it reaches its return with
\* an empty worklist, and the result then holds every reachable project
\* name exactly once.
C1_Terminates ==
    (pc = "loop" /\ recursive /\ \A n \in Reachable : ~LoadFails(n))
        ~> (/\ pc = "done"
            /\ to_process = <<>>
            /\ \A n \in Reachable : Occurrences(ResultNames(result), n) = 1)

\* a finished recursive call on a graph with a cycle through T and a
\* duplicate name in T's link list
C1_Witness ==
    /\ pc = "done"
    /\ recursive
    /\ "T" \in Reachable
    /\ ~NoDuplicates(Links("T"))
    /\ Len(result) = 3

\* C2: in every state of a linked_projects call, recursive or not, no two
\* resolvers of the result have the same name and no project's metadata
\* has been fetched twice.
C2_NoRevisit ==
    InCall => NoDuplicates(ResultNames(result)) /\ NoDuplicates(fetched)

\* a call that met an already resolved name again and went on
C2_Witness ==
    /\ pc = "loop"
    /\ Len(result) = 2
    /\ to_process /= <<>>
    /\ to_process[1] \in Range(ResultNames(result))

\* C3: whichever pending name is processed next, a finished recursive
\* call returns exactly the names reachable from T by one or more hops.
C3_ReachableSet ==
    pc = "done" /\ recursive => Range(ResultNames(result)) = Reachable

\* a finished recursive call that did not process the worklist front first:
\* a name two hops away was resolved before a directly linked one
C3_Witness ==
    /\ pc = "done"
    /\ recursive
    /\ pop_any
    /\ \E i, j \in 1..Len(result) :
          i < j /\ Distance(result[i].name) > Distance(result[j].name)

\* C4: the sequence returned by a recursive call is in breadth-first
\* order: link distances never decrease along it, the directly linked
\* projects come first in first-occurrence order of the link list, and
\* calls with the same argument on the unchanged graph return the same
\* sequence.
C4_BreadthFirst ==
    /\ pc = "done" /\ recursive =>
          LET names == ResultNames(result)
              direct == Dedup(linked_projects_names)
          IN  /\ \A i, j \in 1..Len(names) :
                    i < j => Distance(names[i]) <= Distance(names[j])
              /\ Len(direct) <= Len(names)
              /\ SubSeq(names, 1, Len(direct)) = direct
    /\ \A a, b \in 1..Len(returns) :
          returns[a].recursive = returns[b].recursive
              => returns[a].names = returns[b].names

\* two finished recursive calls on a graph with two levels below T
C4_Witness ==
    /\ pc = "done"
    /\ recursive
    /\ Len(returns) = 2
    /\ returns[1].recursive
    /\ Len(result) = 3
    /\ Distance(result[2].name) = 1
    /\ Distance(result[3].name) = 2

\* C5: a non-recursive call fetches no project outside the direct link
\* list, and returns the directly linked names, deduplicated, in
\* first-occurrence order, each resolved from its stored document.
C5_NonRecursive ==
    /\ InCall /\ ~recursive =>
          Range(fetched) \subseteq Range(linked_projects_names)
    /\ pc = "done" /\ ~recursive =>
          /\ ResultNames(result) = Dedup(linked_projects_names)
          /\ fetched = Dedup(linked_projects_names)
          /\ \A i \in 1..Len(result) :
                result[i].metadata.linked_projects_names = Links(result[i].name)

\* a finished non-recursive call whose link list repeats a name and whose
\* direct target has a dangling link of its own
C5_Witness ==
    /\ pc = "done"
    /\ ~recursive
    /\ ~NoDuplicates(linked_projects_names)
    /\ \E i \in 1..Len(result) :
          \E q \in Range(Links(result[i].name)) :
              q \notin Range(linked_projects_names) /\ LoadFails(q)

\* C6 as stated: the recursive closure of T never contains T.
C6_SelfExcluded ==
    pc = "done" /\ recursive => "T" \notin Range(ResultNames(result))

\* C6 as amended: the recursive closure of T contains a resolver named T
\* exactly when T is reachable from its own link list (a self-link or a
\* longer cycle), and then exactly once.
C6_SelfIffOnCycle ==
    pc = "done" /\ recursive =>
        Occurrences(ResultNames(result), "T") = (IF "T" \in Reachable THEN 1 ELSE 0)

\* finished recursive calls: one on a graph with a cycle through T of
\* length two
C6_Witness ==
    /\ pc = "done"
    /\ recursive
    /\ "T" \notin Range(Links("T"))
    /\ "T" \in Range(ResultNames(result))

(***************************************************************************)
(* Claims on get_packages(inherited=True)                                  *)
(***************************************************************************)
\* the packages the k-th project of the closure offers to the merge
Offered(k) == OwnPackages(result[k].name, k)

\* the place of a package in the listing of its project
ListingIndex(pkg) ==
    CHOOSE i \in 1..Len(remote_pkgs[pkg.project]) :
        remote_pkgs[pkg.project][i] = pkg.name

\* a was taken by the merge before b
Earlier(a, b) ==
    \/ a.via < b.via
    \/ a.via = b.via /\ ListingIndex(a) < ListingIndex(b)

Merging == caller = "get_packages" /\ inherited /\ pc \in {"merge", "returned"}

Merged == caller = "get_packages" /\ inherited /\ pc = "returned"

EntriesAt(dict, key) == {i \in 1..Len(dict) : dict[i].key = key}

\* C7: own-package precedence. For every package n that T owns, the merge
\* map holds exactly one entry under key n and it is T's own package, and
\* no package coming from a linked project whose name or releasename() is
\* n is in the map or in the returned packages.
C7_OwnPrecedence ==
    /\ Merging =>
          \A i \in 1..Len(res) :
              /\ Cardinality(EntriesAt(merge_dict, res[i].name)) = 1
              /\ \A e \in EntriesAt(merge_dict, res[i].name) :
                    merge_dict[e].pkg = res[i] /\ res[i].project = "T"
              /\ \A e \in 1..Len(merge_dict) :
                    merge_dict[e].pkg.via >= 1 =>
                        /\ merge_dict[e].pkg.name /= res[i].name
                        /\ releasename(merge_dict[e].pkg) /= res[i].name
    /\ Merged =>
          /\ \A i \in 1..Len(res) : Occurrences(ret, res[i]) = 1
          /\ \A j \in 1..Len(ret) :
                ret[j].via >= 1 =>
                    \A i \in 1..Len(res) :
                        /\ ret[j].name /= res[i].name
                        /\ releasename(ret[j]) /= res[i].name

\* a finished merge where a linked project offered a differently named
\* package whose releasename() is the name of a package T owns
C7_Witness ==
    /\ Merged
    /\ \E i \in 1..Len(res) : \E k \in 1..Len(result) : \E j \in 1..Len(Offered(k)) :
          /\ Offered(k)[j].name /= res[i].name
          /\ releasename(Offered(k)[j]) = res[i].name

\* C8: exclusion patterns. No package coming from a linked project and
\* named patchinfo.42 or kernel-livepatch-5_3 is ever in the merge map or
\* in the returned packages; a linked package named kernel-livepatch is
\* returned unless its name or its releasename() was a key of the map
\* before it was taken.
C8_Exclusions ==
    /\ Merging =>
          \A e \in 1..Len(merge_dict) :
              merge_dict[e].pkg.via >= 1 =>
                  merge_dict[e].pkg.name \notin {"patchinfo.42", "kernel-livepatch-5_3"}
    /\ Merged =>
          /\ \A j \in 1..Len(ret) :
                ret[j].via >= 1 =>
                    ret[j].name \notin {"patchinfo.42", "kernel-livepatch-5_3"}
          /\ \A k \in 1..Len(result) : \A j \in 1..Len(Offered(k)) :
                LET c == Offered(k)[j]
                IN  c.name = "kernel-livepatch" =>
                        \/ c \in Range(ret)
                        \/ \E e \in 1..Len(merge_dict) :
                              /\ merge_dict[e].key \in {c.name, releasename(c)}
                              /\ Earlier(merge_dict[e].pkg, c)

\* a finished merge that inherited kernel-livepatch from a linked project
\* and was offered a package of an excluded name by a linked project
C8_Witness ==
    /\ Merged
    /\ \E j \in 1..Len(ret) : ret[j].via >= 1 /\ ret[j].name = "kernel-livepatch"
    /\ \E k \in 1..Len(result) : \E j \in 1..Len(Offered(k)) :
          Offered(k)[j].name \in {"patchinfo.42", "kernel-livepatch-5_3"}

\* C9: alias collision. A candidate whose releasename() differs from its
\* name and is already a key of the merge map leaves the map unchanged,
\* and a finished merge returns no linked package whose releasename()
\* differs from its name and was the key of a package taken earlier.
C9_AliasStep ==
    (/\ AtCandidate
     /\ Candidate.name /= releasename(Candidate)
     /\ releasename(Candidate) \in Keys(merge_dict))
        => merge_dict' = merge_dict

C9_AliasAbsent ==
    Merged =>
        \A k \in 1..Len(result) : \A j \in 1..Len(Offered(k)) :
            LET c == Offered(k)[j]
            IN  (/\ c.name /= releasename(c)
                 /\ \E e \in 1..Len(merge_dict) :
                       /\ merge_dict[e].key = releasename(c)
                       /\ Earlier(merge_dict[e].pkg, c))
                    => c \notin Range(ret)

\* C9: both parts, the step of the merge and the returned list
C9_AliasCollision == [][C9_AliasStep]_vars /\ []C9_AliasAbsent

\* the merge has just passed over a candidate whose releasename() is the
\* key of a package inherited earlier
C9_Witness ==
    /\ pc = "merge"
    /\ inherited
    /\ pkg_j >= 1
    /\ LET c == cur_pkgs[pkg_j]
       IN  /\ c.name /= releasename(c)
           /\ c \notin Range(Values(merge_dict))
           /\ \E e \in 1..Len(merge_dict) :
                 /\ merge_dict[e].key = releasename(c)
                 /\ merge_dict[e].pkg.via >= 1

InScenario ==
    /\ remote_meta = ScenarioMeta
    /\ remote_pkgs = ScenarioPkgs
    /\ relname = RelAlias

\* C10: in the scenario (T owns wine and links to R1; R1 owns wine,
\* patchinfo.42, foo and links to R2; R2 owns foo.99, whose releasename()
\* is foo), get_packages(inherited=True) on T returns exactly two
\* packages: wine of T and foo of R1.
C10_Scenario ==
    InScenario /\ Merged =>
        /\ Len(ret) = 2
        /\ \E a, b \in 1..Len(ret) :
              /\ ret[a].name = "wine" /\ ret[a].project = "T" /\ ret[a].via = 0
              /\ ret[b].name = "foo" /\ ret[b].project = "R1"

\* the call on the scenario returned after listing T, R1 and R2
C10_Witness ==
    /\ InScenario
    /\ Merged
    /\ listed = <<"T", "R1", "R2">>
    /\ ResultNames(result) = <<"R1", "R2">>

(***************************************************************************)
(* Claims on failures of the closure walk                                  *)
(***************************************************************************)
\* the remote store has no metadata for n
Dangling(n) == remote_meta[n].code = NotFoundCode

InheritedCall == caller = "get_packages" /\ inherited /\ ~bare

\* C11: missing link target. When some name reachable from T through link
\* declarations, at any depth, has no metadata on the remote store, a
\* started get_packages(inherited=True) never gets to the merge and never
\* returns: the walk cannot end with an empty worklist, it ends raising
\* ProjectNotFound for a reachable name that is not there, every name
\* resolved before was there, and no merge map, no returned list and no
\* package list of a linked project exists at any time.
C11_MissingTarget ==
    (InheritedCall /\ \E n \in Reachable : Dangling(n)) =>
        /\ pc \in {"loop", "raised"}
        /\ pc = "loop" => to_process /= <<>> /\ error = NoError
        /\ pc = "raised" =>
              \E n \in Reachable : Dangling(n) /\ error = ProjectNotFound(n)
        /\ \A i \in 1..Len(result) : ~Dangling(result[i].name)
        /\ merge_dict = <<>>
        /\ ret = <<>>
        /\ listed = <<"T">>

\* the call failed on a name two hops away, after resolving a linked
\* project that has packages
C11_Witness ==
    /\ InheritedCall
    /\ pc = "raised"
    /\ error.kind = "ProjectNotFound"
    /\ Len(result) = 1
    /\ result[1].name /= "T"
    /\ remote_pkgs[result[1].name] /= <<>>
    /\ error.project_name \notin Range(Links("T"))

(***************************************************************************)
(* Claims on the precedence among linked projects                          *)
(***************************************************************************)
\* every package a project of the closure offers to the merge
AllOffered == UNION {Range(Offered(k)) : k \in 1..Len(result)}

NonExcluded(pkg) == ~PatchinfoMatch(pkg.name) /\ ~LivepatchMatch(pkg.name)

\* a and b compete: the same name, or the same releasename()
Compete(a, b) == a.name = b.name \/ releasename(a) = releasename(b)

\* T owns a package named like pkg or like its releasename()
OwnsKeyOf(pkg) == \E i \in 1..Len(res) : res[i].name \in {pkg.name, releasename(pkg)}

\* a package taken before pkg is stored under the name of pkg or under
\* its releasename()
EarlierHolder(pkg) ==
    \E e \in 1..Len(merge_dict) :
        /\ merge_dict[e].key \in {pkg.name, releasename(pkg)}
        /\ Earlier(merge_dict[e].pkg, pkg)

\* C12 as stated: first writer wins. Of two non-excluded competing packages
\* offered by the closure, where T owns no package under the name or the
\* releasename() of either, the one taken first (the earlier project, or
\* the earlier entry of one project's listing) is returned and the other
\* is not.
C12_FirstWriterWins ==
    Merged =>
        \A a, b \in AllOffered :
            (/\ Earlier(a, b)
             /\ Compete(a, b)
             /\ NonExcluded(a) /\ NonExcluded(b)
             /\ ~OwnsKeyOf(a) /\ ~OwnsKeyOf(b))
                => a \in Range(ret) /\ b \notin Range(ret)

\* C12 as amended: of two non-excluded competing packages offered by the
\* closure, the one taken first is returned and the other is not, provided
\* no package taken before the first one (an own package, a package of an
\* earlier project, an earlier entry of the same listing) is stored under
\* its name or its releasename().
C12_FirstUnchallengedWins ==
    Merged =>
        \A a, b \in AllOffered :
            (/\ Earlier(a, b)
             /\ Compete(a, b)
             /\ NonExcluded(a) /\ NonExcluded(b)
             /\ ~EarlierHolder(a))
                => a \in Range(ret) /\ b \notin Range(ret)

\* a finished merge where two linked projects offered differently named
\* packages with the same releasename(), and one where a listing held two
\* such packages
C12_Witness ==
    /\ Merged
    /\ \E a, b \in AllOffered :
          /\ Earlier(a, b)
          /\ a.name /= b.name
          /\ releasename(a) = releasename(b)
          /\ NonExcluded(a) /\ NonExcluded(b)
          /\ ~EarlierHolder(a)
          /\ a \in Range(ret)
          /\ \E c \in AllOffered : c.name = b.name /\ Earlier(b, c)

C14_OwnListing ==
    /\ pc = "idle" => ENABLED GPCallOwn
    /\ (caller = "get_packages" /\ ~inherited) =>
          /\ pc = "returned"
          /\ error = NoError
          /\ Len(ret) = Len(remote_pkgs["T"])
          /\ \A i \in 1..Len(ret) :
                ret[i].name = remote_pkgs["T"][i] /\ ret[i].project = "T"
          /\ listed = <<"T">>
          /\ fetched = <<>>
          /\ to_process = <<>>
          /\ result = <<>>

\* the call returned three packages on a resolver without metadata whose
\* project has a dangling link on the remote store
C14_Witness ==
    /\ caller = "get_packages"
    /\ ~inherited
    /\ pc = "returned"
    /\ bare
    /\ Len(ret) = 3
    /\ \E n \in Range(Links("T")) : Dangling(n)

(***************************************************************************)
(* Claims on load and find                                                 *)
(***************************************************************************)
\* the name the finished load or find was called with
Asked == fetched[1]

\* C15: after a load or a find of a name, the call has raised
\* ProjectNotFound exactly when the remote store answers the metadata GET
\* of that name with 404; on every other failing answer it has raised the
\* HTTPError of that answer itself; on a raise neither a document nor a
\* resolver is returned, and on success load returns the stored document
\* and find a resolver of that name with the links of the document.
C15_NotFoundExactlyOn404 ==
    (caller \in {"load", "find"}) =>
        /\ error.kind = "ProjectNotFound" <=> remote_meta[Asked].code = NotFoundCode
        /\ remote_meta[Asked].code = NotFoundCode =>
              error = [kind |-> "ProjectNotFound", project_name |-> Asked]
        /\ remote_meta[Asked].code \notin {OkCode, NotFoundCode} =>
              error = [kind |-> "HTTPError", code |-> remote_meta[Asked].code]
        /\ error /= NoError <=> pc = "raised"
        /\ pc = "raised" => document = NoDocument /\ resolver = NoResolver
        /\ remote_meta[Asked].code = OkCode =>
              /\ pc = "returned"
              /\ document.kind = "document"
              /\ caller = "find" =>
                    /\ resolver.name = Asked
                    /\ resolver.metadata.linked_projects_names = Links(Asked)

\* a find was answered with a server error and raised it
C15_Witness ==
    /\ caller = "find"
    /\ pc = "raised"
    /\ remote_meta[Asked].code = ServerErrorCode
    /\ error.kind = "HTTPError"

(***************************************************************************)
(* Claims on create_subproject                                             *)
(***************************************************************************)
\* this step is a create_subproject call that stored a document
Created == saved' /= saved

\* C16: a create_subproject call that goes through stores, under the name
\* of T, a colon and the child name, a document whose link list is the
\* link list the remote store held for T when the call was made, in the
\* same order; it returns a resolver with that name and that list as
\* linked_projects_names; its remote calls are one metadata GET, of T, and
\* one PUT.
C16_Step ==
    Created =>
        \E child \in ChildNames :
            LET fullname == SubName(child)
            IN  /\ saved' = Append(saved, fullname)
                /\ remote_meta'[fullname].code = OkCode
                /\ remote_meta'[fullname].links = remote_meta[Self].links
                /\ resolver'.name = fullname
                /\ resolver'.metadata.linked_projects_names = remote_meta[Self].links
                /\ fetched' = <<Self>>
                /\ error' = NoError
                /\ pc' = "returned"

C16_CloneLinks == [][C16_Step]_vars

\* a subproject was created of a project with two different links which
\* the resolver of T, found earlier, does not hold
C16_Witness ==
    /\ caller = "create_subproject"
    /\ pc = "returned"
    /\ saved = <<SubName("sub")>>
    /\ Len(Links(SubName("sub"))) = 2
    /\ Links(SubName("sub"))[1] /= Links(SubName("sub"))[2]
    /\ linked_projects_names /= Links(SubName("sub"))
    /\ resolver.metadata.linked_projects_names = Links(SubName("sub"))

\* the names the walk from T's resolver can come to
WalkNames == ClosureIn(remote_meta, Range(linked_projects_names))

\* only a create_subproject that goes through changes a document, and only
\* the one of the subproject; the resolver of T and the packages stay
Frame17 ==
    /\ \A p \in DOMAIN remote_meta :
          remote_meta'[p] /= remote_meta[p] => Created /\ p = resolver'.name
    /\ Created =>
          /\ remote_meta'[Self] = remote_meta[Self]
          /\ linked_projects_names' = linked_projects_names
          /\ bare' = bare
          /\ remote_pkgs' = remote_pkgs

\* C17 as stated: create_subproject changes only the remote entry of the
\* subproject, and the recursive closure of T is the same before and after
\* the call.
C17_ClosureUnchanged ==
    [][Frame17 /\ (Created => RecursiveClosure(remote_meta') = RecursiveClosure(remote_meta))]_vars

\* C17 as amended: create_subproject changes only the remote entry of the
\* subproject, and the recursive closure of T is the same before and after
\* the call when the walk from T's resolver does not come to the name of
\* the subproject. The closure is what a recursive linked_projects call
\* returns or raises.
C17_OnlyTheChild ==
    /\ [][Frame17 /\ (Created /\ resolver'.name \notin WalkNames =>
                          RecursiveClosure(remote_meta') = RecursiveClosure(remote_meta))]_vars
    /\ [](caller = "linked_projects" /\ recursive /\ pc = "done" =>
              RecursiveClosure(remote_meta)
                  = [names |-> ResultNames(result), error |-> NoError])
    /\ [](caller = "linked_projects" /\ recursive /\ pc = "raised" =>
              RecursiveClosure(remote_meta) = [names |-> <<>>, error |-> error])

\* a recursive call returned two names after a subproject was created that
\* the walk does not come to, while the name was there before with a link
C17_Witness ==
    /\ saved = <<SubName("sub")>>
    /\ caller = "linked_projects"
    /\ recursive
    /\ pc = "done"
    /\ Len(result) = 2
    /\ SubName("sub") \notin WalkNames
    /\ Links(SubName("sub")) /= <<>>

(***************************************************************************)
(* Claims on the worklist of linked_projects                               *)
(***************************************************************************)
RECURSIVE SumLinks(_)
\* the number of names the call has appended to the worklist so far
SumLinks(found) ==
    IF found = <<>> THEN 0
    ELSE SumLinks(SubSeq(found, 1, Len(found) - 1))
            + Len(found[Len(found)].metadata.linked_projects_names)

\* the number of names the recursive call has taken from the worklist
Popped == Len(linked_projects_names) + SumLinks(result) - Len(to_process)

SeedConsumed == Popped >= Len(linked_projects_names)

\* this step of the loop resolved a project
Resolving == pc = "loop" /\ Len(result') = Len(result) + 1

\* this step of the loop dropped the name it took
Dropping == pc = "loop" /\ pc' = "loop" /\ result' = result /\ to_process' /= to_process

\* the names a resolving step appended: the front was taken, the rest
\* moved up
Appended == SubSeq(to_process', Len(to_process), Len(to_process'))

\* C18 as stated: in a recursive call no name that is in the accumulated
\* result is appended to the worklist, and once the seed is consumed no
\* name taken from the worklist is dropped as already resolved.
C18_NeverRequeued ==
    [][/\ (recursive /\ Resolving) =>
              \A n \in Range(Appended) : n \notin Range(ResultNames(result'))
       /\ (recursive /\ Dropping) => ~SeedConsumed]_vars

\* C18 as amended: in a recursive call a resolved name is never resolved
\* again. A resolving step appends every link of the project it resolved,
\* in order, whether resolved before or not; a name that is in the
\* accumulated result when it is taken from the worklist is dropped
\* without a fetch and without appending anything.
C18_NeverResolvedAgain ==
    [][(recursive /\ pc = "loop" /\ to_process /= <<>>) =>
          \/ UNCHANGED vars
          \/ /\ to_process[1] \in Range(ResultNames(result))
             /\ result' = result
             /\ fetched' = fetched
             /\ to_process' = Tail(to_process)
          \/ /\ to_process[1] \notin Range(ResultNames(result))
             /\ fetched' = Append(fetched, to_process[1])
             /\ \/ pc' = "raised" /\ result' = result
                \/ /\ Resolving
                   /\ result'[Len(result')].name = to_process[1]
                   /\ Appended = Links(to_process[1])]_vars

\* the seed is consumed and the name at the front of the worklist is
\* resolved already: it was queued again
C18_Witness ==
    /\ pc = "loop"
    /\ recursive
    /\ SeedConsumed
    /\ to_process /= <<>>
    /\ to_process[1] \in Range(ResultNames(result))
    /\ NoDuplicates(linked_projects_names)

(***************************************************************************)
(* Claims on the insertions of the merge                                   *)
(***************************************************************************)
\* the k-th package of T as get_packages(inherited=False) on T builds it
OwnPackageAt(k) == [name |-> remote_pkgs["T"][k], project |-> "T", via |-> 0]

OwnCount == Len(remote_pkgs["T"])

\* C19: own packages are never evicted. The seed holds one entry per own
\* package; every later change of the merge map appends one entry under a
\* key that was absent; and the packages get_packages(inherited=True)
\* returns contain every own package, owned by T, whatever its name.
C19_NoEviction ==
    /\ [][/\ (pc = "loop" /\ pc' = "merge") =>
                /\ Len(merge_dict') = OwnCount
                /\ \A k \in 1..OwnCount : merge_dict'[k].pkg = OwnPackageAt(k)
          /\ (pc = "merge" /\ merge_dict' /= merge_dict) =>
                /\ Len(merge_dict') = Len(merge_dict) + 1
                /\ SubSeq(merge_dict', 1, Len(merge_dict)) = merge_dict
                /\ merge_dict'[Len(merge_dict')].key \notin Keys(merge_dict)]_vars
    /\ [](Merging => \A k \in 1..OwnCount : merge_dict[k].pkg = OwnPackageAt(k))
    /\ [](Merged => \A k \in 1..OwnCount : ret[k] = OwnPackageAt(k))

\* a merge returned in which T owns a package of a skipped pattern, a
\* linked project offered a package whose name or releasename() is the name
\* of an own package, and a linked package was inserted
C19_Witness ==
    /\ Merged
    /\ \E k \in 1..OwnCount :
          PatchinfoMatch(remote_pkgs["T"][k]) \/ LivepatchMatch(remote_pkgs["T"][k])
    /\ \E q \in 1..Len(result) : \E n \in Range(remote_pkgs[result[q].name]) :
          \E k \in 1..OwnCount :
             /\ remote_pkgs["T"][k] \in {n, relname[n]}
             /\ n /= relname[n]
    /\ Len(ret) > OwnCount

(***************************************************************************)
(* Claims on the order of the remote calls of get_packages                 *)
(***************************************************************************)
\* the names of a list of package objects
PackageNames(pkgs) == [i \in 1..Len(pkgs) |-> pkgs[i].name]

\* C20: in get_packages(inherited=True) the own package list is fetched
\* before any metadata; a linked project's package list is fetched only
\* when the closure is complete, and no metadata is fetched from then on;
\* the linked package lists are fetched in closure order, one per project
\* of the closure, each the project's own listing; when the closure walk
\* raises only T's package list was fetched.
C20_CallOrder ==
    /\ [][(caller' = "get_packages" /\ inherited') =>
             /\ fetched' /= fetched => (listed = <<"T">> /\ listed' = listed)
             /\ (listed' /= listed /\ listed /= <<>>) =>
                   /\ pc = "merge"
                   /\ to_process = <<>>
                   /\ fetched' = fetched
                   /\ result' = result]_vars
    /\ [](Merging =>
             /\ fetched = ResultNames(result)
             /\ listed = <<"T">> \o SubSeq(ResultNames(result), 1, proj_i)
             /\ NoDuplicates(Tail(listed))
             /\ proj_i >= 1 =>
                   PackageNames(cur_pkgs) = remote_pkgs[result[proj_i].name])
    /\ [](Merged => listed = <<"T">> \o ResultNames(result))
    /\ []((caller = "get_packages" /\ inherited /\ pc = "raised") =>
             listed = <<"T">>)

\* the merge returned after the package lists of T and of two or more
\* linked projects were fetched
C20_Witness ==
    /\ Merged
    /\ Len(result) >= 2
    /\ Len(listed) = Len(result) + 1
    /\ Len(fetched) >= 2

(***************************************************************************)
(* Claims on what linked_projects leaves alone                             *)
(***************************************************************************)
\* C21: no step of a linked_projects call, recursive or not, returning or
\* raising, changes linked_projects_names of the metadata it was called on
\* or the resolvers already in result (their metadata holds the link list
\* of the stored document); every call starts from the whole list, and
\* two finished calls with the same argument have the same outcome, names
\* or error.
C21_PrivateWorklist ==
    /\ [][/\ linked_projects_names' = linked_projects_names
          /\ pc = "loop" =>
                /\ Len(result') >= Len(result)
                /\ SubSeq(result', 1, Len(result)) = result
          /\ (pc /= "loop" /\ pc' = "loop") => to_process' = linked_projects_names]_vars
    /\ [](InCall => \A k \in 1..Len(result) :
                result[k].metadata.linked_projects_names = Links(result[k].name))
    /\ [](\A a, b \in 1..Len(returns) :
            returns[a].recursive = returns[b].recursive => returns[a] = returns[b])

\* a second recursive call returned the names of the first, on a resolver
\* with links whose targets have links
C21_Witness ==
    /\ pc = "done"
    /\ Len(returns) = 2
    /\ returns[1].recursive
    /\ returns[2].recursive
    /\ returns[2].names /= <<>>
    /\ Len(linked_projects_names) >= 2
    /\ \E k \in 1..Len(result) : result[k].metadata.linked_projects_names /= <<>>

(***************************************************************************)
(* Claims on the names of the merged packages                              *)
(***************************************************************************)
\* the candidate has the name of a package inherited before
NamedLikeInherited ==
    \E e \in 1..Len(merge_dict) :
        merge_dict[e].pkg.via >= 1 /\ merge_dict[e].pkg.name = Candidate.name

\* C22: no two packages returned by get_packages(inherited=True) have the
\* same name, and a candidate named like a package inherited before leaves
\* the merge map unchanged: its name or its releasename() is a key.
C22_OneEntryPerName ==
    /\ [][(AtCandidate /\ NamedLikeInherited) =>
             /\ merge_dict' = merge_dict
             /\ \/ Candidate.name \in Keys(merge_dict)
                \/ releasename(Candidate) \in Keys(merge_dict)]_vars
    /\ [](Merging => \A i, j \in 1..Len(merge_dict) :
             i /= j => merge_dict[i].pkg.name /= merge_dict[j].pkg.name)
    /\ [](Merged => \A i, j \in 1..Len(ret) : i /= j => ret[i].name /= ret[j].name)

\* the merge has just passed over a candidate named like a package that
\* was inherited under a releasename() other than its name, a name that is
\* no key of the map
C22_Witness ==
    /\ pc = "merge"
    /\ inherited
    /\ pkg_j >= 1
    /\ LET c == cur_pkgs[pkg_j]
       IN  /\ c.name \notin Keys(merge_dict)
           /\ c \notin Range(Values(merge_dict))
           /\ \E e \in 1..Len(merge_dict) :
                 /\ merge_dict[e].pkg.via >= 1
                 /\ merge_dict[e].pkg.name = c.name
                 /\ merge_dict[e].key /= c.name

(***************************************************************************)
(* Claims on what the merge keeps                                          *)
(***************************************************************************)
\* C23: when get_packages(inherited=True) has returned, every package a
\* project of the closure offered under a name of neither exclusion
\* pattern has its name or its releasename() among the keys of the merge
\* map, and every returned package is an own package of T or such an
\* offered package.
C23_Represented ==
    Merged =>
        /\ \A c \in AllOffered :
              NonExcluded(c) =>
                  c.name \in Keys(merge_dict) \/ releasename(c) \in Keys(merge_dict)
        /\ \A j \in 1..Len(ret) :
              \/ \E k \in 1..OwnCount : ret[j] = OwnPackageAt(k)
              \/ ret[j] \in AllOffered /\ NonExcluded(ret[j])

\* a finished merge that inherited a package, passed over an excluded one
\* and passed over one that is represented by its releasename() only
C23_Witness ==
    /\ Merged
    /\ \E j \in 1..Len(ret) : ret[j].via >= 1
    /\ \E d \in AllOffered : ~NonExcluded(d)
    /\ \E c \in AllOffered :
          /\ NonExcluded(c)
          /\ c \notin Range(ret)
          /\ c.name \notin Keys(merge_dict)

(***************************************************************************)
(* Claims on create_project                                                *)
(***************************************************************************)
\* the step is a call create_project(name, ...) with some reviewer and links
CreateCalled(name) ==
    /\ http' /= <<>>
    /\ \E reviewer \in Reviewers, project_links \in LinkLists :
          http'[1] = CreateCall(name, reviewer, project_links)

\* the objects create_project constructed with the name
CreatedAs(name) == {o \in ConstructedBy("create_project") : pobjs[o].name = name}

\* C24 as stated: over any sequence of create_project calls at most one
\* Project is constructed per name.
C24_OneObjectPerName ==
    \A name \in CreateKeys : Cardinality(CreatedAs(name)) <= 1

\* C24: create_project constructs a Project, with one meta PUT, only for a
\* name that is no key of the registry; the call returns the new object
\* registered under the name, or the PUT fails, the call raises and the
\* registry is unchanged, so that a name whose PUT is accepted has at most
\* one object of create_project; a call with a registered key returns the
\* registered object, constructs nothing and sends nothing, whatever
\* reviewer and project_links it is given; a call given a Project returns
\* it and leaves the registry unchanged; no key leaves the registry.
C24_OncePerKey ==
    /\ [][\A name \in CreateKeys \cup {"target"} :
             CreateCalled(name) =>
                 IF name \in RegKeys(projects)
                 THEN /\ outcome' = Returned(RegGet(projects, name))
                      /\ Len(http') = 1
                      /\ pobjs' = pobjs
                      /\ projects' = projects
                 ELSE /\ pobjs' = Append(pobjs, NewProject(name, "create_project"))
                      /\ Len(http') = 2
                      /\ http'[2].method = "PUT" /\ http'[2].target = name
                      /\ \/ /\ outcome' = Returned(Len(pobjs'))
                            /\ projects' = RegSet(projects, name, Len(pobjs'))
                         \/ /\ outcome'.kind = "raised"
                            /\ Answer("PUT", name) /= OkCode
                            /\ projects' = projects]_vars
    /\ [][\A obj \in 1..Len(pobjs) :
             (http' = <<CreateCallGiven(obj)>>) =>
                 outcome' = Returned(obj) /\ projects' = projects /\ pobjs' = pobjs]_vars
    /\ [][RegKeys(projects) \subseteq RegKeys(projects')]_vars
    /\ [](\A name \in CreateKeys :
             Answer("PUT", name) = OkCode => Cardinality(CreatedAs(name)) <= 1)

\* create_project was called with a registered key and returned the
\* registered object, after a call with a Project that is not registered,
\* on a fixture where create_project constructed one object
C24_Witness ==
    /\ \E name \in CreateKeys, project_links \in LinkLists :
          /\ http = <<CreateCall(name, {"factory-staging"}, project_links)>>
          /\ name \in RegKeys(projects)
          /\ outcome = Returned(RegGet(projects, name))
          /\ CreatedAs(name) /= {}
    /\ ConstructedBy("test") /= {}

(***************************************************************************)
(* Claims on Project.remove                                                *)
(***************************************************************************)
\* the positions of the log where remove() is called on the project object
RemoveCalls(log, obj) == {i \in 1..Len(log) : log[i] = CallOf("Project.remove", obj)}

\* the entry ends a remove() call on the project object
LeavesRemove(entry, obj) ==
    /\ entry.method = "left"
    /\ entry.target = "Project.remove"
    /\ entry.obj = obj

\* the position where the call at position i leaves
RemoveEnd(log, obj, i) ==
    CHOOSE j \in (i + 1)..Len(log) :
        /\ LeavesRemove(log[j], obj)
        /\ \A k \in (i + 1)..(j - 1) : ~LeavesRemove(log[k], obj)

\* before position i of the log of the step, a remove() on the object had
\* returned normally: before the step or earlier in it
ReturnedBefore(log, obj, i) ==
    \/ pobjs[obj].name = None
    \/ \E j \in 1..(i - 1) : log[j] = Left("Project.remove", obj, 0)

\* the step is a garbage collection of the object
Collects(obj) == pobjs'[obj].collected /\ ~pobjs[obj].collected

\* C25: in every step and for every remove() call on a Project object: a
\* call that returns normally leaves the name None; a call made after a
\* normal return sends nothing and calls nothing; the project's DELETE is
\* sent after a remove() call on every package of the project, and the
\* call returns on the answers 200 and 404 and raises the HTTPError on
\* any other; a call that raises leaves the name set, and the error
\* reaches the caller unless a destructor made the call; a name that is
\* None stays None.
C25_RemoveOnce ==
    /\ [][\A obj \in 1..Len(pobjs) : \A i \in RemoveCalls(http', obj) :
             LET j == RemoveEnd(http', obj, i)
                 sends == {d \in (i + 1)..(j - 1) :
                              http'[d] = Sent("DELETE", pobjs[obj].name)}
             IN  /\ http'[j].code = 0 => pobjs'[obj].name = None
                 /\ ReturnedBefore(http', obj, i) => j = i + 1 /\ http'[j].code = 0
                 /\ \A d \in sends :
                       /\ d = j - 1
                       /\ \A k \in Range(pobjs[obj].packages) :
                             \E c \in (i + 1)..(d - 1) :
                                 http'[c] = CallOf("Package.remove", k)
                       /\ http'[j].code =
                             IF Answer("DELETE", pobjs[obj].name) \in {OkCode, NotFoundCode}
                             THEN 0 ELSE Answer("DELETE", pobjs[obj].name)
                 /\ http'[j].code /= 0 =>
                       /\ pobjs'[obj].name = pobjs[obj].name
                       /\ pobjs[obj].name /= None
                       /\ http'[j].code \notin {OkCode, NotFoundCode}
                       /\ ~Collects(obj) =>
                             outcome' = Raised(http'[j].code) /\ j = Len(http')]_vars
    /\ [][\A obj \in 1..Len(pobjs) :
             pobjs[obj].name = None => pobjs'[obj].name = None]_vars

\* the calls of the log on the project object that sent the DELETE of the
\* named project
Deleting(obj, name) ==
    {i \in RemoveCalls(http, obj) :
        \E d \in (i + 1)..(RemoveEnd(http, obj, i) - 1) : http[d] = Sent("DELETE", name)}

\* StagingWorkflow.remove() returned: it visited the target project, which
\* has two packages, under both of its keys and sent its DELETE, answered
\* 404, in the first visit only
C25_Witness ==
    /\ outcome = Returned(0)
    /\ Registered("target")
    /\ LET t == RegGet(projects, "target")
       IN  /\ Cardinality(RemoveCalls(http, t)) = 2
           /\ Cardinality(Deleting(t, Target)) = 1
           /\ Len(pobjs[t].packages) = 2
           /\ pobjs[t].name = None
           /\ Answer("DELETE", Target) = NotFoundCode
    /\ \E obj \in ConstructedBy("test") : pobjs[obj].collected

(***************************************************************************)
(* Claims on Request.revoke                                                *)
(***************************************************************************)
\* the positions of the log where revoke() is called on the request object
RevokeCalls(log, obj) == {i \in 1..Len(log) : log[i] = CallOf("Request.revoke", obj)}

\* the entry ends a revoke() call on the request object
LeavesRevoke(entry, obj) ==
    /\ entry.method = "left"
    /\ entry.target = "Request.revoke"
    /\ entry.obj = obj

\* the position where the call at position i leaves
RevokeEnd(log, obj, i) ==
    CHOOSE j \in (i + 1)..Len(log) :
        /\ LeavesRevoke(log[j], obj)
        /\ \A k \in (i + 1)..(j - 1) : ~LeavesRevoke(log[k], obj)

\* before position i of the log of the step, a revoke() on the object had
\* returned normally: before the step or earlier in it
RevokedBefore(log, obj, i) ==
    \/ robjs[obj].revoked /\ robjs[obj].reqid /= 0
    \/ \E j \in 1..(i - 1) : log[j] = Left("Request.revoke", obj, 0)

\* the 'revoked' state changes a log can hold
RevokedChanges == {StateChange(reqid, "revoked") : reqid \in 0..(MaxRequests + 1)}

\* C26: in every step and for every revoke() call on a Request object: a
\* call that returns normally leaves the request revoked; a call made
\* after a normal return, and a call on a request whose creation raised,
\* sends nothing; the state change is sent for the id of the request, and
\* the call returns on the answers 200, 403 and 404 and raises the
\* HTTPError on any other; a call that raises leaves the request not
\* revoked and the error reaches the caller; every 'revoked' state change
\* of a log is sent by a revoke() call on a created request; a revoked
\* request stays revoked.
C26_RevokeOnce ==
    /\ [][\A obj \in 1..Len(robjs) : \A i \in RevokeCalls(http', obj) :
             LET j == RevokeEnd(http', obj, i)
                 path == RequestPath(robjs[obj].reqid)
             IN  /\ http'[j].code = 0 => robjs'[obj].revoked
                 /\ RevokedBefore(http', obj, i) => j = i + 1 /\ http'[j].code = 0
                 /\ robjs[obj].reqid = 0 => j = i + 1 /\ http'[j].code = 0
                 /\ j /= i + 1 =>
                       /\ j = i + 2
                       /\ http'[i + 1] = StateChange(robjs[obj].reqid, "revoked")
                       /\ http'[j].code =
                             IF Answer("POST", path) \in {OkCode, ForbiddenCode, NotFoundCode}
                             THEN 0 ELSE Answer("POST", path)
                 /\ http'[j].code /= 0 =>
                       /\ ~robjs'[obj].revoked
                       /\ http'[j].code \notin {OkCode, ForbiddenCode, NotFoundCode}
                       /\ outcome' = Raised(http'[j].code)
                       /\ j = Len(http')]_vars
    /\ [][\A d \in 1..Len(http') :
             http'[d] \in RevokedChanges =>
                 /\ d >= 2
                 /\ \E obj \in 1..Len(robjs) :
                       /\ http'[d - 1] = CallOf("Request.revoke", obj)
                       /\ http'[d] = StateChange(robjs[obj].reqid, "revoked")
                       /\ robjs[obj].reqid /= 0
                       /\ obj \in Range(requests)]_vars
    /\ [][\A obj \in 1..Len(robjs) : robjs[obj].revoked => robjs'[obj].revoked]_vars
    /\ [](\A obj \in 1..Len(robjs) : robjs[obj].reqid = 0 => robjs[obj].revoked)

\* revoke() was called again on a request whose first revoke() was
\* answered 403, and sent nothing, on a fixture where a request of unknown
\* type was garbage collected
C26_Witness ==
    /\ outcome = Returned(0)
    /\ \E obj \in Range(requests) :
          /\ http = <<CallOf("Request.revoke", obj), Left("Request.revoke", obj, 0)>>
          /\ robjs[obj].revoked
          /\ Answer("POST", RequestPath(robjs[obj].reqid)) = ForbiddenCode
    /\ \E obj \in 1..Len(robjs) :
          /\ robjs[obj].type = "other"
          /\ robjs[obj].collected

(***************************************************************************)
(* Claims on the user stack of the test case                               *)
(***************************************************************************)
\* the last element of self.users is the active user
TopIsActive(t) == t.users /= <<>> /\ t.users[Len(t.users)] = t.active

\* C27: osc_user(u) pushes u and makes it the active user; osc_user_pop()
\* made with two users or more takes the top off, does not raise and
\* leaves the new top active; assertReviewBot on a stack that setUp and
\* osc_user calls built runs the script as its user and leaves stack and
\* active user as they were; on every such stack, of every depth, the top
\* is the active user and osc_user followed by osc_user_pop, once or
\* nested twice, gives back the stack and the active user.
C27_StackTop ==
    /\ [][testcall'.op = "osc_user" =>
             /\ users' = Append(users, testcall'.user)
             /\ active' = testcall'.user
             /\ TopIsActive(TestState(users', active', FALSE))]_vars
    /\ [][(testcall'.op = "osc_user_pop" /\ Len(users) >= 2) =>
             /\ ~testcall'.raised
             /\ users' = SubSeq(users, 1, Len(users) - 1)
             /\ TopIsActive(TestState(users', active', FALSE))]_vars
    /\ [][(testcall'.op = "assertReviewBot" /\ users /= <<>>) =>
             /\ users' = users
             /\ active' = active
             /\ testcall'.script = testcall'.user
             /\ ~testcall'.raised]_vars
    /\ [](users /= <<>> =>
             /\ TopIsActive(Now)
             /\ \A u \in UserNames : osc_user_pop(osc_user(Now, u)) = Now
             /\ \A u, v \in UserNames :
                   osc_user_pop(osc_user_pop(osc_user(osc_user(Now, u), v))) = Now)

\* assertReviewBot has returned on a stack of three users, having run the
\* script as a user other than the one active before and after
C27_Witness ==
    /\ testcall.op = "assertReviewBot"
    /\ ~testcall.raised
    /\ Len(users) = 3
    /\ testcall.user /= active
    /\ users[2] /= users[3]
    /\ TopIsActive(Now)

====
